---- MODULE Spec2Model ----
(***************************************************************************)
(* next-intl-analyzer: the source scanner (ParseSourceFile), the catalog   *)
(* key extractor (extractKeys) and the reconciler (Analyze).               *)
(*                                                                         *)
(* Go strings are modelled as sequences of one-character strings, so that  *)
(* the regular expressions and the strings.* calls of the source operate   *)
(* on characters.  The texts are ASCII: len() counts characters.           *)
(***************************************************************************)
EXTENDS Integers, Sequences, FiniteSets, Bags, TLC

\* ------------------------------------------------------------ characters

Lower == {"a","b","c","d","e","f","g","h","i","j","k","l","m",
          "n","o","p","q","r","s","t","u","v","w","x","y","z"}

Upper == {"A","B","C","D","E","F","G","H","I","J","K","L","M",
          "N","O","P","Q","R","S","T","U","V","W","X","Y","Z"}

Digit == {"0","1","2","3","4","5","6","7","8","9"}

\* [a-zA-Z]
Alpha == Lower \cup Upper

\* \w of Go's regexp (RE2): [0-9A-Za-z_]
WordCh == Alpha \cup Digit \cup {"_"}

\* \s of Go's regexp: [\t\n\f\r ]; a line holds no \n, and \f, \r are not in the texts
SpaceCh == {" ", "\t"}

\* ['"]
QuoteCh == {"'", "\""}

\* -------------------------------------------------- regular expressions
\* A regular expression is a sequence of elements, matched left to right with
\* backtracking, as Go's regexp package does for these patterns (leftmost
\* match, greedy repetitions, alternatives tried in order).

Lit(s) == [k |-> "lit", s |-> s]

Alt(ss) == [k |-> "alt", ss |-> ss]

\* [cs]{min,max}; max = -1 is "no upper limit"
Cls(cs, min, max) == [k |-> "rep", neg |-> FALSE, cs |-> cs, min |-> min, max |-> max]

\* [^cs]{min,max}
NCls(cs, min, max) == [k |-> "rep", neg |-> TRUE, cs |-> cs, min |-> min, max |-> max]

\* \b
WordBoundary == [k |-> "wb"]

NoMatch == <<-1>>

\* whether the text t stands in s at offset i (0-based)
IsAt(t, s, i) ==
    /\ i + Len(t) <= Len(s)
    /\ \A j \in 1..Len(t) : s[i + j] = t[j]

InClass(e, c) == IF e.neg THEN c \notin e.cs ELSE c \in e.cs

\* the number of characters of the class of e that follow offset i, at most e.max
RunLen(e, s, i) ==
    LET lim == IF e.max = -1 \/ i + e.max > Len(s) THEN Len(s) - i ELSE e.max
        stop == {n \in 0..lim : n = lim \/ ~InClass(e, s[i + n + 1])}
    IN  CHOOSE n \in stop : \A m \in stop : n <= m

IsWordAt(s, p) == p >= 1 /\ p <= Len(s) /\ s[p] \in WordCh

Cons(p, r) == IF r = NoMatch THEN NoMatch ELSE <<p>> \o r

\* Matches the elements k.. of re against s from offset i: the offset reached
\* after each element, or NoMatch.
RECURSIVE MatchAt(_, _, _, _)
RECURSIVE TryAlt(_, _, _, _, _)
TryAlt(re, k, s, i, j) ==
    IF j > Len(re[k].ss) THEN NoMatch
    ELSE LET a == re[k].ss[j]
             r == IF IsAt(a, s, i) THEN Cons(i + Len(a), MatchAt(re, k + 1, s, i + Len(a)))
                  ELSE NoMatch
         IN  IF r # NoMatch THEN r ELSE TryAlt(re, k, s, i, j + 1)

MatchAt(re, k, s, i) ==
    IF k > Len(re) THEN <<>>
    ELSE LET e == re[k] IN
         CASE e.k = "lit" ->
                IF IsAt(e.s, s, i)
                THEN Cons(i + Len(e.s), MatchAt(re, k + 1, s, i + Len(e.s)))
                ELSE NoMatch
           [] e.k = "alt" -> TryAlt(re, k, s, i, 1)
           [] e.k = "wb" ->
                IF IsWordAt(s, i) # IsWordAt(s, i + 1)
                THEN Cons(i, MatchAt(re, k + 1, s, i))
                ELSE NoMatch
           [] e.k = "rep" ->
                LET run  == RunLen(e, s, i)
                    good == {c \in e.min..run : MatchAt(re, k + 1, s, i + c) # NoMatch}
                IN  IF good = {} THEN NoMatch
                    ELSE LET c == CHOOSE x \in good : \A y \in good : y <= x
                         IN  Cons(i + c, MatchAt(re, k + 1, s, i + c))

\* The leftmost match of re in s at or after offset from: <<start, end after
\* element 1, ..., end after the last element>>, or NoMatch.
FindFrom(re, s, from) ==
    LET starts == {i \in from..Len(s) : MatchAt(re, 1, s, i) # NoMatch}
    IN  IF starts = {} THEN NoMatch
        ELSE LET i == CHOOSE x \in starts : \A y \in starts : x <= y
             IN  <<i>> \o MatchAt(re, 1, s, i)

\* regexp.FindStringSubmatch
FindStringSubmatch(re, s) == FindFrom(re, s, 0)

\* regexp.FindAllStringSubmatch(s, -1): the successive non-overlapping matches
RECURSIVE FindAllFrom(_, _, _)
FindAllFrom(re, s, from) ==
    IF from > Len(s) THEN <<>>
    ELSE LET m == FindFrom(re, s, from)
         IN  IF m = NoMatch THEN <<>>
             ELSE LET end == m[Len(m)]
                  IN  <<m>> \o FindAllFrom(re, s, IF end = m[1] THEN end + 1 ELSE end)

FindAllStringSubmatch(re, s) == FindAllFrom(re, s, 0)

\* the text matched by the elements a..b of re in the match m
Group(s, m, a, b) == SubSeq(s, m[a] + 1, m[b + 1])

\* ------------------------------------------------ the binding patterns

\* (?:useTranslations|getTranslations)\(['"]([^'"]+)['"]\)
HookCall(names) ==
    << Alt(names), Lit(<<"(">>), Cls(QuoteCh, 1, 1), NCls(QuoteCh, 1, -1),
       Cls(QuoteCh, 1, 1), Lit(<<")">>) >>

\* useTranslations\(['"]([^'"]+)['"]\)
useTranslationsPattern == HookCall(<< <<"u","s","e","T","r","a","n","s","l","a","t","i","o","n","s">> >>)

\* getTranslations\(['"]([^'"]+)['"]\)
getTranslationsPattern == HookCall(<< <<"g","e","t","T","r","a","n","s","l","a","t","i","o","n","s">> >>)

DeclKeyword == Alt(<< <<"c","o","n","s","t">>, <<"l","e","t">>, <<"v","a","r">> >>)

BothHooks == << <<"u","s","e","T","r","a","n","s","l","a","t","i","o","n","s">>, <<"g","e","t","T","r","a","n","s","l","a","t","i","o","n","s">> >>

\* (?:const|let|var)\s+(\w+)\s*=\s*(?:useTranslations|getTranslations)\(['"]([^'"]+)['"]\)
varAssignmentPattern ==
    << DeclKeyword, Cls(SpaceCh, 1, -1), Cls(WordCh, 1, -1), Cls(SpaceCh, 0, -1),
       Lit(<<"=">>), Cls(SpaceCh, 0, -1) >> \o HookCall(BothHooks)

\* (?:const|let|var)\s+\{\s*(\w+)[^\}]*\}\s*=\s*(?:useTranslations|getTranslations)\(['"]([^'"]+)['"]\)
destructuredPattern ==
    << DeclKeyword, Cls(SpaceCh, 1, -1), Lit(<<"{">>), Cls(SpaceCh, 0, -1),
       Cls(WordCh, 1, -1), NCls({"}"}, 0, -1), Lit(<<"}">>), Cls(SpaceCh, 0, -1),
       Lit(<<"=">>), Cls(SpaceCh, 0, -1) >> \o HookCall(BothHooks)

\* (\w+)\s*\(['"]([^'"]+)['"]\)
genericCallsPattern ==
    << Cls(WordCh, 1, -1), Cls(SpaceCh, 0, -1), Lit(<<"(">>), Cls(QuoteCh, 1, 1),
       NCls(QuoteCh, 1, -1), Cls(QuoteCh, 1, 1), Lit(<<")">>) >>

\* (\w+)\.(?:rich|markup|raw|has)\s*\(['"]([^'"]+)['"]\)
extendedApiPattern ==
    << Cls(WordCh, 1, -1), Lit(<<".">>),
       Alt(<< <<"r","i","c","h">>, <<"m","a","r","k","u","p">>, <<"r","a","w">>, <<"h","a","s">> >>), Cls(SpaceCh, 0, -1),
       Lit(<<"(">>), Cls(QuoteCh, 1, 1), NCls(QuoteCh, 1, -1), Cls(QuoteCh, 1, 1),
       Lit(<<")">>) >>

\* ------------------------------------------------------- package strings

\* strings.Contains
Contains(s, sub) == \E i \in 0..(Len(s) - Len(sub)) : IsAt(sub, s, i)

\* strings.HasPrefix
HasPrefix(s, p) == IsAt(p, s, 0)

\* strings.HasSuffix
HasSuffix(s, p) == Len(p) <= Len(s) /\ IsAt(p, s, Len(s) - Len(p))

\* strings.Count, for a one-character sub
Count(s, c) == Cardinality({i \in 1..Len(s) : s[i] = c})

\* strings.ContainsAny
ContainsAny(s, chars) == \E i \in 1..Len(s) : s[i] \in chars

\* strings.TrimSpace
TrimSpace(s) ==
    LET keep == {i \in 1..Len(s) : s[i] \notin SpaceCh}
    IN  IF keep = {} THEN <<>>
        ELSE SubSeq(s, CHOOSE i \in keep : \A j \in keep : i <= j,
                       CHOOSE i \in keep : \A j \in keep : j <= i)

\* len(strings.Fields(s)): the number of maximal runs of non-space characters
NumFields(s) ==
    Cardinality({i \in 1..Len(s) : s[i] \notin SpaceCh /\ (i = 1 \/ s[i - 1] \in SpaceCh)})

LowerSeq == <<"a","b","c","d","e","f","g","h","i","j","k","l","m","n","o","p","q","r","s","t","u","v","w","x","y","z">>

UpperSeq == <<"A","B","C","D","E","F","G","H","I","J","K","L","M","N","O","P","Q","R","S","T","U","V","W","X","Y","Z">>

\* unicode.ToLower, ASCII
ToLowerCh(c) ==
    IF c \in Upper THEN LowerSeq[CHOOSE i \in 1..Len(UpperSeq) : UpperSeq[i] = c] ELSE c

\* strings.ToLower
ToLower(s) == [i \in 1..Len(s) |-> ToLowerCh(s[i])]

\* strings.EqualFold, ASCII
EqualFold(s, t) == ToLower(s) = ToLower(t)

\* whether some element of the list occurs in s
ContainsSome(s, list) == \E n \in 1..Len(list) : Contains(s, list[n])

\* ----------------------------------------------- the classifier tables

\* Common short UI words that should be translated
ShortUIWords == <<
    <<"O","K">>,
    <<"N","o">>,
    <<"Y","e","s">>,
    <<"C","a","n","c","e","l">>,
    <<"S","a","v","e">>,
    <<"E","d","i","t">>,
    <<"D","e","l","e","t","e">>,
    <<"A","d","d">>,
    <<"N","e","w">>,
    <<"B","a","c","k">>,
    <<"N","e","x","t">>,
    <<"P","r","e","v">>,
    <<"C","l","o","s","e">>,
    <<"O","p","e","n">>,
    <<"H","e","l","p">>,
    <<"I","n","f","o">>,
    <<"E","r","r","o","r">>,
    <<"L","o","a","d","i","n","g">>,
    <<"D","o","n","e">>,
    <<"S","u","b","m","i","t">>,
    <<"R","e","s","e","t">>,
    <<"C","l","e","a","r">>,
    <<"S","e","a","r","c","h">>,
    <<"F","i","l","t","e","r">>,
    <<"S","o","r","t">>,
    <<"V","i","e","w">>,
    <<"H","i","d","e">>,
    <<"S","h","o","w">>,
    <<"M","o","r","e">>,
    <<"L","e","s","s">>,
    <<"A","l","l">>,
    <<"N","o","n","e">>
>>

\* Technical patterns that indicate code/technical content.  The entry
\* className={ followed by a backquote is left out: a text that holds it holds
\* the entry className too.
TechnicalPatterns == <<
    <<"c","l","a","s","s","N","a","m","e">>,
    <<"i","d","=">>,
    <<"h","r","e","f","=">>,
    <<"s","r","c","=">>,
    <<"a","l","t","=">>,
    <<"t","i","t","l","e","=">>,
    <<"t","y","p","e","=">>,
    <<"v","a","l","u","e","=">>,
    <<"p","l","a","c","e","h","o","l","d","e","r","=">>,
    <<"a","r","i","a","-">>,
    <<"d","a","t","a","-">>,
    <<"r","o","l","e","=">>,
    <<"t","a","b","i","n","d","e","x","=">>,
    <<"d","i","s","a","b","l","e","d","=">>,
    <<"r","e","a","d","o","n","l","y","=">>,
    <<"r","e","q","u","i","r","e","d","=">>,
    <<"m","a","x","l","e","n","g","t","h","=">>,
    <<"m","i","n","l","e","n","g","t","h","=">>,
    <<"p","a","t","t","e","r","n","=">>,
    <<"o","n","C","l","i","c","k">>,
    <<"o","n","C","h","a","n","g","e">>,
    <<"o","n","S","u","b","m","i","t">>,
    <<"o","n","L","o","a","d">>,
    <<"o","n","B","l","u","r">>,
    <<"o","n","F","o","c","u","s">>,
    <<"o","n","K","e","y">>,
    <<"u","s","e","S","t","a","t","e">>,
    <<"u","s","e","E","f","f","e","c","t">>,
    <<"u","s","e","C","a","l","l","b","a","c","k">>,
    <<"u","s","e","M","e","m","o">>,
    <<"u","s","e","R","e","f">>,
    <<"u","s","e","C","o","n","t","e","x","t">>,
    <<"i","m","p","o","r","t">>,
    <<"e","x","p","o","r","t">>,
    <<"c","o","n","s","t">>,
    <<"l","e","t">>,
    <<"v","a","r">>,
    <<"f","u","n","c","t","i","o","n">>,
    <<"r","e","t","u","r","n">>,
    <<"i","f">>,
    <<"e","l","s","e">>,
    <<"f","o","r">>,
    <<"w","h","i","l","e">>,
    <<"s","w","i","t","c","h">>,
    <<"c","a","s","e">>,
    <<"d","e","f","a","u","l","t">>,
    <<"b","r","e","a","k">>,
    <<"c","o","n","t","i","n","u","e">>,
    <<"t","r","u","e">>,
    <<"f","a","l","s","e">>,
    <<"n","u","l","l">>,
    <<"u","n","d","e","f","i","n","e","d">>,
    <<"N","a","N">>,
    <<"I","n","f","i","n","i","t","y">>,
    <<"p","r","o","p","s">>,
    <<"s","t","a","t","e">>,
    <<"r","e","f">>,
    <<"k","e","y">>,
    <<"i","n","d","e","x">>,
    <<"i","t","e","m">>,
    <<"e","l","e","m","e","n","t">>,
    <<"c","o","m","p","o","n","e","n","t">>,
    <<"h","a","n","d","l","e","r">>,
    <<"c","a","l","l","b","a","c","k">>,
    <<"e","v","e","n","t">>,
    <<"e",".","t","a","r","g","e","t">>,
    <<"e",".","p","r","e","v","e","n","t","D","e","f","a","u","l","t">>,
    <<"c","h","i","l","d","r","e","n">>,
    <<"c","l","a","s","s","N","a","m","e","=">>,
    <<"s","t","y","l","e","=">>,
    <<"i","d","=">>,
    <<"n","a","m","e","=">>,
    <<"o","n","C","l","i","c","k","=">>,
    <<"o","n","C","h","a","n","g","e","=">>,
    <<"o","n","S","u","b","m","i","t","=">>,
    <<"w","i","d","t","h","=">>,
    <<"h","e","i","g","h","t","=">>,
    <<"s","i","z","e","=">>,
    <<"c","o","l","o","r","=">>,
    <<".","j","s">>,
    <<".","j","s","x">>,
    <<".","t","s">>,
    <<".","t","s","x">>,
    <<".","c","s","s">>,
    <<".","s","c","s","s">>,
    <<".","j","s","o","n">>,
    <<".","m","d">>,
    <<"h","t","t","p",":","/","/">>,
    <<"h","t","t","p","s",":","/","/">>,
    <<"w","w","w",".">>,
    <<".","c","o","m">>,
    <<".","o","r","g">>,
    <<".","n","e","t">>,
    <<"c","o","n","s","o","l","e",".","l","o","g">>,
    <<"d","e","b","u","g","g","e","r">>,
    <<"t","h","r","o","w">>,
    <<"c","a","t","c","h">>,
    <<"f","i","n","a","l","l","y">>,
    <<"t","r","y">>,
    <<"n","e","w"," ">>,
    <<"i","n","s","t","a","n","c","e","o","f">>,
    <<"t","y","p","e","o","f">>,
    <<"d","e","l","e","t","e">>,
    <<"i","n">>,
    <<"o","f">>,
    <<">">>,
    <<"<","/">>,
    <<"<">>,
    <<"/",">">>,
    <<"=","{">>,
    <<"{","}">>,
    <<"(",")">>,
    <<"[","]">>,
    <<"a","w","a","i","t">>,
    <<"a","s","y","n","c">>,
    <<"c","l","a","s","s">>,
    <<"s","u","p","e","r">>,
    <<"t","h","i","s">>,
    <<"p","r","o","t","o","t","y","p","e">>,
    <<"c","o","n","s","t","r","u","c","t","o","r">>,
    <<"e","x","t","e","n","d","s">>,
    <<"i","m","p","l","e","m","e","n","t","s">>,
    <<"i","n","t","e","r","f","a","c","e">>,
    <<"e","n","u","m">>,
    <<"p","u","b","l","i","c">>,
    <<"p","r","i","v","a","t","e">>,
    <<"p","r","o","t","e","c","t","e","d">>,
    <<"=",">","{">>,
    <<"(",")","=",">">>,
    <<"=",">","(">>,
    <<"=",">","{","}">>,
    <<".",".",".","p","r","o","p","s">>,
    <<".",".",".","r","e","s","t">>,
    <<"c","l","a","s","s","N","a","m","e","=","{">>
>>

\* UI/UX patterns that indicate user-facing content (the non-ASCII entry is left out)
UIPatterns == <<
    <<"W","e","l","c","o","m","e">>,
    <<"H","e","l","l","o">>,
    <<"G","o","o","d","b","y","e">>,
    <<"T","h","a","n","k"," ","y","o","u">>,
    <<"P","l","e","a","s","e">>,
    <<"S","o","r","r","y">>,
    <<"S","u","c","c","e","s","s">>,
    <<"E","r","r","o","r">>,
    <<"W","a","r","n","i","n","g">>,
    <<"I","n","f","o">>,
    <<"L","o","a","d","i","n","g">>,
    <<"P","r","o","c","e","s","s","i","n","g">>,
    <<"C","l","i","c","k">>,
    <<"P","r","e","s","s">>,
    <<"E","n","t","e","r">>,
    <<"S","e","l","e","c","t">>,
    <<"C","h","o","o","s","e">>,
    <<"B","r","o","w","s","e">>,
    <<"D","o","w","n","l","o","a","d">>,
    <<"U","p","l","o","a","d">>,
    <<"S","h","a","r","e">>,
    <<"L","i","k","e">>,
    <<"F","o","l","l","o","w">>,
    <<"S","u","b","s","c","r","i","b","e">>,
    <<"S","i","g","n"," ","i","n">>,
    <<"S","i","g","n"," ","u","p">>,
    <<"L","o","g"," ","i","n">>,
    <<"L","o","g"," ","o","u","t">>,
    <<"R","e","g","i","s","t","e","r">>,
    <<"L","o","g","i","n">>,
    <<"P","r","o","f","i","l","e">>,
    <<"S","e","t","t","i","n","g","s">>,
    <<"P","r","e","f","e","r","e","n","c","e","s">>,
    <<"A","c","c","o","u","n","t">>,
    <<"D","a","s","h","b","o","a","r","d">>,
    <<"H","o","m","e">>,
    <<"A","b","o","u","t">>,
    <<"C","o","n","t","a","c","t">>,
    <<"H","e","l","p">>,
    <<"S","u","p","p","o","r","t">>,
    <<"F","A","Q">>,
    <<"T","e","r","m","s">>,
    <<"P","r","i","v","a","c","y">>,
    <<"P","o","l","i","c","y">>,
    <<"L","i","c","e","n","s","e">>,
    <<"C","o","p","y","r","i","g","h","t">>,
    <<"C","r","e","a","t","e","d"," ","b","y">>,
    <<"D","e","v","e","l","o","p","e","d"," ","b","y">>,
    <<"P","o","w","e","r","e","d"," ","b","y">>,
    <<"M","a","d","e"," ","w","i","t","h">>,
    <<"C","o","p","y","r","i","g","h","t">>,
    <<"A","l","l"," ","r","i","g","h","t","s"," ","r","e","s","e","r","v","e","d">>,
    <<"S","u","b","m","i","t">>,
    <<"S","a","v","e">>,
    <<"C","a","n","c","e","l">>,
    <<"D","e","l","e","t","e">>,
    <<"E","d","i","t">>,
    <<"R","e","m","o","v","e">>,
    <<"C","r","e","a","t","e">>,
    <<"U","p","d","a","t","e">>,
    <<"R","e","a","d"," ","m","o","r","e">>,
    <<"L","e","a","r","n"," ","m","o","r","e">>,
    <<"V","i","e","w"," ","d","e","t","a","i","l","s">>,
    <<"C","o","n","t","i","n","u","e">>,
    <<"P","r","e","v","i","o","u","s">>,
    <<"N","e","x","t">>,
    <<"B","a","c","k"," ","t","o">>,
    <<"R","e","t","u","r","n"," ","t","o">>,
    <<"G","o"," ","t","o">>,
    <<"N","a","v","i","g","a","t","e"," ","t","o">>
>>

\* Common punctuation marks (the three non-ASCII marks are left out)
CommonPunctuation == <<
    <<"!">>,
    <<"?">>,
    <<".">>,
    <<",">>,
    <<":">>,
    <<";">>,
    <<"-">>
>>


MinTextLength == 3

LongTextThreshold == 10

MediumTextThreshold == 5

MinWordsForSentence == 3

\* int(float64(n) * LongTextRatio), LongTextRatio = 0.6
LongTextMin(n) == (n * 6) \div 10

\* int(float64(n) * MediumTextRatio), MediumTextRatio = 0.6
MediumTextMin(n) == (n * 6) \div 10

\* int(float64(n) * ShortTextRatio), ShortTextRatio = 0.75
ShortTextMin(n) == (n * 3) \div 4

\* ------------------------------------------- the hardcoded-text classifier

TagNames ==
    << <<"h","1">>, <<"h","2">>, <<"h","3">>, <<"h","4">>, <<"h","5">>, <<"h","6">>, <<"p">>, <<"l","i">>, <<"s","p","a","n">>,
       <<"d","i","v">>, <<"b","u","t","t","o","n">>, <<"a">>, <<"l","a","b","e","l">>, <<"t","d">>, <<"t","h">> >>

\* [^<>{}\n]
NotMarkup == {"<", ">", "{", "}"}

\* [^"'<>]
NotQuoteOrTag == {"\"", "'", "<", ">"}

\* The span patterns of ParseSourceFile; the elements a..b are the captured
\* group.  h[1-6] is written out as h1 .. h6.
\*  <(?:h[1-6]|p|li|span|div|button|a|label|td|th)\b[^>]*>([^<>{}\n]+[a-zA-Z][^<>{}\n]*)</(?:...)>
\*  (?:title|alt|placeholder|aria-label|description)=["']([^"'<>]{3,}[a-zA-Z][^"'<>]*)["']
\*  >([^<>{}\n]{3,}[a-zA-Z][^<>{}\n]{3,})<
hardcodedPatterns ==
    << [re |-> << Lit(<<"<">>), Alt(TagNames), WordBoundary, NCls({">"}, 0, -1), Lit(<<">">>),
                  NCls(NotMarkup, 1, -1), Cls(Alpha, 1, 1), NCls(NotMarkup, 0, -1),
                  Lit(<<"<","/">>), Alt(TagNames), Lit(<<">">>) >>,
        a |-> 6, b |-> 8],
       [re |-> << Alt(<< <<"t","i","t","l","e">>, <<"a","l","t">>, <<"p","l","a","c","e","h","o","l","d","e","r">>, <<"a","r","i","a","-","l","a","b","e","l">>, <<"d","e","s","c","r","i","p","t","i","o","n">> >>),
                  Lit(<<"=">>), Cls(QuoteCh, 1, 1),
                  NCls(NotQuoteOrTag, 3, -1), Cls(Alpha, 1, 1), NCls(NotQuoteOrTag, 0, -1),
                  Cls(QuoteCh, 1, 1) >>,
        a |-> 4, b |-> 6],
       [re |-> << Lit(<<">">>),
                  NCls(NotMarkup, 3, -1), Cls(Alpha, 1, 1), NCls(NotMarkup, 3, -1),
                  Lit(<<"<">>) >>,
        a |-> 2, b |-> 4] >>

\* isNumeric checks if a string is mostly numeric
isNumeric(text) ==
    Cardinality({i \in 1..Len(text) : text[i] \in Digit}) >= Len(text) \div 2

KeyWords ==
    << <<"b","u","t","t","o","n">>, <<"n","a","v","i","g","a","t","i","o","n">>, <<"t","i","t","l","e">>, <<"w","e","l","c","o","m","e">>, <<"a","b","o","u","t">>, <<"d","e","s","c","r","i","p","t","i","o","n">>,
       <<"u","n","d","e","c","l","a","r","e","d","K","e","y">> >>

KeyPatterns ==
    << <<"b","u","t","t","o","n",".">>, <<"n","a","v","i","g","a","t","i","o","n",".">>, <<"t","i","t","l","e">>, <<"w","e","l","c","o","m","e">>, <<"a","b","o","u","t">>, <<"d","e","s","c","r","i","p","t","i","o","n">> >>

CodeWords ==
    { <<"n","a","m","e">>, <<"v","a","l","u","e">>, <<"d","a","t","a">>, <<"t","y","p","e">>, <<"l","a","b","e","l">>, <<"c","o","n","t","e","n","t">>, <<"f","o","r","m","a","t">>, <<"d","e","f","a","u","l","t">> }

\* The rejections of ParseSourceFile between a captured span and the call of
\* isNumeric.
SkipBeforeNumeric(text) ==
    \/ Contains(text, <<"t","(">>) \/ Contains(text, <<"<">>) \/ Contains(text, <<">">>)
    \/ Contains(text, <<"(">>) /\ Contains(text, <<"'">>)
    \/ Contains(text, <<".">>) /\ Len(text) < 20
    \/ Len(text) < 20 /\ ~Contains(text, <<" ">>) /\ ContainsSome(text, KeyWords)
    \/ Contains(text, <<"i","m","p","o","r","t">>) \/ Contains(text, <<"e","x","p","o","r","t">>)
    \/ Contains(text, <<"f","u","n","c","t","i","o","n">>) \/ Contains(text, <<"c","o","n","s","t">>)
    \/ HasPrefix(TrimSpace(text), <<"{">>) /\ HasSuffix(TrimSpace(text), <<"}">>)
    \/ HasPrefix(text, <<"u","s","e">>) \/ HasPrefix(text, <<"g","e","t">>)
    \/ HasPrefix(text, <<"/">>) \/ Contains(text, <<"h","t","t","p">>)
    \/ Contains(text, <<"w","w","w",".">>) \/ Contains(text, <<".","c","o","m">>)
    \/ ~Contains(text, <<" ">>) /\ Len(text) < 15
    \/ text \in CodeWords
    \/ Count(text, "=") > 1 \/ Count(text, ":") > 1
    \/ ContainsSome(text, TechnicalPatterns)
    \/ HasPrefix(text, <<"/","*">>) \/ HasPrefix(text, <<"/","/">>) \/ Contains(text, <<"*","/">>)
    \/ ContainsSome(text, KeyPatterns) /\ Len(text) < 30 /\ ~Contains(text, <<" ">>)
    \/ Len(text) < MinTextLength \/ TrimSpace(text) = <<>>
    \/ Contains(text, <<"=">>) \/ Contains(text, <<"+">>) \/ Contains(text, <<"-">>)

\* The rejection of a single character that is no common punctuation, after
\* the call of isNumeric.
SkipAfterNumeric(text) ==
    Len(text) = 1 /\ \A n \in 1..Len(CommonPunctuation) : text # CommonPunctuation[n]

\* The rejections of ParseSourceFile between a captured span and the call of
\* isUserFacingText.
SkipSpan(text) ==
    \/ SkipBeforeNumeric(text)
    \/ isNumeric(text)
    \/ SkipAfterNumeric(text)

\* the ASCII characters of ".,!?:;-" and the dashes and ellipsis of the source
PunctCh == {".", ",", "!", "?", ":", ";", "-"}

isUserFacingText(text) ==
    LET n          == Len(text)
        words      == NumFields(text)
        alphaCount == Cardinality({i \in 1..n : text[i] \in Alpha})
        spaceCount == Cardinality({i \in 1..n : text[i] = " "})
        punctCount == Cardinality({i \in 1..n : text[i] \in PunctCh})
        nonAlphaCount == n - alphaCount - spaceCount - punctCount
    IN  IF n >= 2 /\ n <= 4 /\ \E w \in 1..Len(ShortUIWords) : EqualFold(text, ShortUIWords[w])
        THEN TRUE
        ELSE IF n < MinTextLength THEN FALSE
        ELSE IF ContainsAny(text, {"{", "}", "[", "]", "(", ")", "<", ">", "=", "+", "*", "/"})
        THEN FALSE
        ELSE IF /\ ~Contains(text, <<" ">>)
                /\ \/ Contains(text, <<"_">>)
                   \/ ToLower(text) # text /\ text[1] \in Lower
        THEN FALSE
        ELSE IF ContainsSome(text, TechnicalPatterns) THEN FALSE
        ELSE IF ContainsSome(text, UIPatterns) THEN TRUE
        ELSE IF words >= MinWordsForSentence THEN TRUE
        ELSE IF n > LongTextThreshold
        THEN alphaCount >= LongTextMin(n) /\ words >= MinWordsForSentence
        ELSE IF n > MediumTextThreshold
        THEN alphaCount >= MediumTextMin(n) /\ nonAlphaCount < n \div 3
        ELSE alphaCount >= ShortTextMin(n)

\* the trimmed spans one pattern captures in a line, in match order
SpansOf(pat, line) ==
    LET ms == FindAllStringSubmatch(pat.re, line)
    IN  [n \in 1..Len(ms) |-> TrimSpace(Group(line, ms[n], pat.a, pat.b))]

\* the spans of a line that become hardcoded_string records, in the order of
\* the source's loops (pattern by pattern, match by match)
\* HardcodedFrom with the acceptance of isUserFacingText alone
RECURSIVE HardcodedFrom_AcceptanceOnly(_, _)
HardcodedFrom_AcceptanceOnly(line, p) ==
    IF p > Len(hardcodedPatterns) THEN <<>>
    ELSE SelectSeq(SpansOf(hardcodedPatterns[p], line), isUserFacingText)
         \o HardcodedFrom_AcceptanceOnly(line, p + 1)

RECURSIVE HardcodedFrom(_, _)
HardcodedFrom(line, p) ==
    IF p > Len(hardcodedPatterns) THEN <<>>
    ELSE SelectSeq(SpansOf(hardcodedPatterns[p], line),
                   LAMBDA text : ~SkipSpan(text) /\ isUserFacingText(text))
         \o HardcodedFrom(line, p + 1)

HardcodedTexts(line) == HardcodedFrom(line, 1)

\* ---------------------------------------------------------- ParseSourceFile

\* type Translation
Translation(key, file, line, used, declared, locale, type) ==
    [Key |-> key, File |-> file, Line |-> line, Used |-> used, Declared |-> declared,
     Locale |-> locale, Type |-> type]

\* m[key] = value on a Go map
Put(m, key, value) == [k \in DOMAIN m \cup {key} |-> IF k = key THEN value ELSE m[k]]

EmptyMap == [k \in {} |-> {}]

\* the state of one scan: the default namespace, the binding table and the
\* two result maps
ScanStart ==
    [currentNamespace |-> <<>>, translationVars |-> EmptyMap,
     used |-> EmptyMap, untranslated |-> EmptyMap]

\* RecordCall with the namespace never put before the key
RecordCall_NoNamespace(st, varName, key, filePath, lineNum) ==
    IF key = <<>> THEN st
    ELSE IF varName # <<"t">> /\ varName \notin DOMAIN st.translationVars THEN st
    ELSE [st EXCEPT !.used = Put(@, key,
             Translation(key, filePath, lineNum, TRUE, FALSE, <<>>, "translation_call"))]

\* RecordCall with the namespace put before every key, dotted or not
RecordCall_AlwaysPrefix(st, varName, key, filePath, lineNum) ==
    IF key = <<>> THEN st
    ELSE IF varName # <<"t">> /\ varName \notin DOMAIN st.translationVars THEN st
    ELSE LET namespace == IF varName = <<"t">> THEN st.currentNamespace
                          ELSE st.translationVars[varName]
             fullKey   == IF namespace # <<>> THEN namespace \o <<".">> \o key ELSE key
         IN  [st EXCEPT !.used = Put(@, fullKey,
                 Translation(fullKey, filePath, lineNum, TRUE, FALSE, <<>>, "translation_call"))]

\* One call x("key") or x.rich("key") found in a line: the namespace is the
\* default one for t, the bound one for a name of the binding table, and any
\* other name is no translation call.  A key that holds a dot is kept as it is.
RecordCall(st, varName, key, filePath, lineNum) ==
    IF key = <<>> THEN st
    ELSE IF varName # <<"t">> /\ varName \notin DOMAIN st.translationVars THEN st
    ELSE LET namespace == IF varName = <<"t">> THEN st.currentNamespace
                          ELSE st.translationVars[varName]
             fullKey   == IF namespace # <<>> /\ ~Contains(key, <<".">>)
                          THEN namespace \o <<".">> \o key
                          ELSE key
         IN  [st EXCEPT !.used = Put(@, fullKey,
                 Translation(fullKey, filePath, lineNum, TRUE, FALSE, <<>>, "translation_call"))]

\* the calls a pattern finds in a line, recorded in match order; the
\* identifier is element 1 and the key is element keyAt
RECURSIVE RecordCalls(_, _, _, _, _, _, _)
RecordCalls(st, line, ms, n, keyAt, filePath, lineNum) ==
    IF n > Len(ms) THEN st
    ELSE RecordCalls(RecordCall(st, Group(line, ms[n], 1, 1), Group(line, ms[n], keyAt, keyAt),
                                filePath, lineNum),
                     line, ms, n + 1, keyAt, filePath, lineNum)

\* RecordHardcoded keeping the record a text already has
RECURSIVE RecordHardcoded_KeepFirst(_, _, _, _, _)
RecordHardcoded_KeepFirst(st, texts, n, filePath, lineNum) ==
    IF n > Len(texts) THEN st
    ELSE RecordHardcoded_KeepFirst(
             IF texts[n] \in DOMAIN st.untranslated THEN st
             ELSE [st EXCEPT !.untranslated = Put(@, texts[n],
                      Translation(texts[n], filePath, lineNum, TRUE, FALSE, <<>>, "hardcoded_string"))],
             texts, n + 1, filePath, lineNum)

RECURSIVE RecordHardcoded(_, _, _, _, _)
RecordHardcoded(st, texts, n, filePath, lineNum) ==
    IF n > Len(texts) THEN st
    ELSE RecordHardcoded(
             [st EXCEPT !.untranslated = Put(@, texts[n],
                 Translation(texts[n], filePath, lineNum, TRUE, FALSE, <<>>, "hardcoded_string"))],
             texts, n + 1, filePath, lineNum)

\* What the patterns of the loop body find in a line.  It depends on the line
\* alone, not on the state of the scan.
LineMatches(line) ==
    [useTranslationsMatch |-> FindStringSubmatch(useTranslationsPattern, line),
     getTranslationsMatch |-> FindStringSubmatch(getTranslationsPattern, line),
     varMatch             |-> FindStringSubmatch(varAssignmentPattern, line),
     destructuredMatch    |-> FindStringSubmatch(destructuredPattern, line),
     genericCalls         |-> FindAllStringSubmatch(genericCallsPattern, line),
     extendedCalls        |-> FindAllStringSubmatch(extendedApiPattern, line),
     hardcoded            |-> HardcodedTexts(line)]

\* the loop body without the continue after a useTranslations or
\* getTranslations match: the calls and texts of the line are recorded too
ScanLineWith_HookFallsThrough(st, line, m, filePath, lineNum) ==
    LET bound == IF m.useTranslationsMatch # NoMatch
                 THEN [st EXCEPT !.currentNamespace = Group(line, m.useTranslationsMatch, 4, 4)]
                 ELSE IF m.getTranslationsMatch # NoMatch
                 THEN [st EXCEPT !.currentNamespace = Group(line, m.getTranslationsMatch, 4, 4)]
                 ELSE st
        generic  == RecordCalls(bound, line, m.genericCalls, 1, 5, filePath, lineNum)
        extended == RecordCalls(generic, line, m.extendedCalls, 1, 7, filePath, lineNum)
    IN  RecordHardcoded(extended, m.hardcoded, 1, filePath, lineNum)

\* the body of the loop over the lines of ParseSourceFile, given the matches m
\* of the line
ScanLineWith(st, line, m, filePath, lineNum) ==
    IF m.useTranslationsMatch # NoMatch
    THEN [st EXCEPT !.currentNamespace = Group(line, m.useTranslationsMatch, 4, 4)]
    ELSE IF m.getTranslationsMatch # NoMatch
    THEN [st EXCEPT !.currentNamespace = Group(line, m.getTranslationsMatch, 4, 4)]
    ELSE IF m.varMatch # NoMatch
    THEN [st EXCEPT !.translationVars =
             Put(@, Group(line, m.varMatch, 3, 3), Group(line, m.varMatch, 10, 10))]
    ELSE IF m.destructuredMatch # NoMatch
    THEN [st EXCEPT !.translationVars =
             Put(@, Group(line, m.destructuredMatch, 5, 5), Group(line, m.destructuredMatch, 14, 14))]
    ELSE LET generic  == RecordCalls(st, line, m.genericCalls, 1, 5, filePath, lineNum)
             extended == RecordCalls(generic, line, m.extendedCalls, 1, 7, filePath, lineNum)
         IN  RecordHardcoded(extended, m.hardcoded, 1, filePath, lineNum)

\* the end of ParseSourceFile: the hardcoded records are written over the
\* used map, which is returned
MergeUntranslated(st) ==
    [k \in DOMAIN st.used \cup DOMAIN st.untranslated |->
        IF k \in DOMAIN st.untranslated THEN st.untranslated[k] ELSE st.used[k]]


\* ------------------------------------------------------- the catalog files

\* A parsed JSON value (interface{} after json.Unmarshal): a string, number,
\* boolean or null; a map[string]interface{}; or a []interface{}.
Scalar == [t |-> "scalar"]

\* the JSON value null
Null == [t |-> "null"]

Object(m) == [t |-> "map", m |-> m]

Array(a) == [t |-> "arr", a |-> a]

RECURSIVE SumBags(_)
SumBags(S) ==
    IF S = {} THEN EmptyBag
    ELSE LET b == CHOOSE x \in S : TRUE IN b (+) SumBags(S \ {b})

DigitSeq == <<"0","1","2","3","4","5","6","7","8","9">>

\* the decimal digits of i >= 0 (the %d of fmt.Sprintf)
RECURSIVE Itoa(_)
Itoa(i) == IF i < 10 THEN <<DigitSeq[i + 1]>> ELSE Itoa(i \div 10) \o <<DigitSeq[(i % 10) + 1]>>

\* extractKeys with only the keys whose value is no mapping
RECURSIVE extractKeys_LeavesOnly(_, _)
extractKeys_LeavesOnly(data, prefix) ==
    IF data.t = "map"
    THEN SumBags({ LET currentKey == IF prefix # <<>> THEN prefix \o <<".">> \o key ELSE key
                       value      == data.m[key]
                   IN  IF value.t = "map" THEN extractKeys_LeavesOnly(value, currentKey)
                       ELSE SetToBag({currentKey})
                   : key \in DOMAIN data.m })
    ELSE EmptyBag

\* extractKeys: the keys it returns, as a bag (the order of the returned slice
\* is the iteration order of Go maps, which is not specified)
RECURSIVE extractKeys(_, _)
extractKeys(data, prefix) ==
    CASE data.t = "map" ->
           SumBags({ LET currentKey == IF prefix # <<>> THEN prefix \o <<".">> \o key ELSE key
                         value      == data.m[key]
                     IN  SetToBag({currentKey})
                             (+) (IF value.t = "map" THEN extractKeys(value, currentKey)
                                  ELSE EmptyBag)
                     : key \in DOMAIN data.m })
      [] data.t = "arr" ->
           SumBags({ LET item       == data.a[i]
                         currentKey == prefix \o <<"[">> \o Itoa(i - 1) \o <<"]">>
                     IN  IF item.t = "map" THEN extractKeys(item, currentKey) ELSE EmptyBag
                     : i \in 1..Len(data.a) })
      [] OTHER -> EmptyBag

\* a catalog file: its path, whether os.ReadFile succeeds, whether its content
\* is JSON, and the value it parses to
CatalogFile(path, readable, json, data) ==
    [path |-> path, readable |-> readable, lines |-> <<>>, json |-> json, data |-> data]

\* ParseTranslationFile fails when the file cannot be read or json.Unmarshal
\* into a map[string]interface{} fails (no JSON, or JSON that is neither an
\* object nor null)
ParseTranslationFileFails(f) == ~f.readable \/ ~f.json \/ f.data.t \notin {"map", "null"}

\* ParseTranslationFile on a file it does not fail on: key -> Translation
ParseTranslationFile(f) ==
    [key \in BagToSet(extractKeys(f.data, <<>>)) |->
        Translation(key, f.path, 0, FALSE, TRUE, <<>>, "")]

\* ------------------------------------------------------------ the analyzer

\* The paths are the clean, slash-separated paths filepath.Walk hands out.

\* the position of the last c in s, 0 when there is none
LastIndex(s, c) ==
    LET at == {i \in 1..Len(s) : s[i] = c}
    IN  IF at = {} THEN 0 ELSE CHOOSE i \in at : \A j \in at : j <= i

\* filepath.Base
Base(path) == SubSeq(path, LastIndex(path, "/") + 1, Len(path))

\* filepath.Dir
Dir(path) ==
    LET i == LastIndex(path, "/")
    IN  IF i = 0 THEN <<".">> ELSE IF i = 1 THEN <<"/">> ELSE SubSeq(path, 1, i - 1)

\* filepath.Ext: from the last dot of the last element on
Ext(path) ==
    LET name == Base(path)
        i    == LastIndex(name, ".")
    IN  IF i = 0 THEN <<>> ELSE SubSeq(name, i, Len(name))

\* strings.TrimSuffix
TrimSuffix(s, suffix) ==
    IF HasSuffix(s, suffix) THEN SubSeq(s, 1, Len(s) - Len(suffix)) ELSE s

CatalogExts == { <<".","j","s","o","n">>, <<".","y","a","m","l">>, <<".","y","m","l">> }

SourceExts == { <<".","j","s">>, <<".","j","s","x">>, <<".","t","s">>, <<".","t","s","x">> }

\* the callback of filepath.Walk in findTranslationFiles, on a file
IsTranslationFile(f) ==
    /\ Ext(f.path) \in CatalogExts
    /\ \/ Contains(f.path, <<"m","e","s","s","a","g","e","s">>)
       \/ Contains(f.path, <<"l","o","c","a","l","e","s">>)
       \/ Contains(f.path, <<"i","1","8","n">>)

\* the callback of filepath.Walk in findSourceFiles, on a file
IsSourceFile(f) ==
    /\ Ext(f.path) \in SourceExts
    /\ ~Contains(f.path, <<"n","o","d","e","_","m","o","d","u","l","e","s">>)
    /\ ~Contains(f.path, <<".","n","e","x","t">>)

findTranslationFiles(files) == SelectSeq(files, IsTranslationFile)

findSourceFiles(files) == SelectSeq(files, IsSourceFile)

\* extractLocaleFromPath: the file name without its extension when that has
\* 2 or 3 characters, else the name of the directory when that has, else ""
extractLocaleFromPath(filePath) ==
    LET fileName == Base(filePath)
        ext      == Ext(fileName)
        locale   == TrimSuffix(fileName, ext)
        dirName  == Base(Dir(filePath))
    IN  IF ext \in CatalogExts /\ Len(locale) >= 2 /\ Len(locale) <= 3 THEN locale
        ELSE IF Len(dirName) >= 2 /\ Len(dirName) <= 3 THEN dirName
        ELSE <<>>

\* groupTranslationFilesByLocale: locale -> its files, in the order found
RECURSIVE GroupFrom(_, _, _)
GroupFrom(files, n, localeFiles) ==
    IF n > Len(files) THEN localeFiles
    ELSE LET locale == extractLocaleFromPath(files[n].path)
             old    == IF locale \in DOMAIN localeFiles THEN localeFiles[locale] ELSE <<>>
         IN  GroupFrom(files, n + 1,
                       IF locale # <<>> THEN Put(localeFiles, locale, Append(old, files[n]))
                       ELSE localeFiles)

groupTranslationFilesByLocale(files) == GroupFrom(files, 1, EmptyMap)

\* for key, translation := range b { a[key] = translation }
MergeInto(a, b) == [k \in DOMAIN a \cup DOMAIN b |-> IF k \in DOMAIN b THEN b[k] ELSE a[k]]

\* analyzeDeclaredTranslations: the files that parse, merged in order; a file
\* that does not parse is skipped with a warning
\* DeclaredFrom giving up at the first file that does not parse
RECURSIVE DeclaredFrom_StopAtFailure(_, _, _)
DeclaredFrom_StopAtFailure(files, n, allDeclared) ==
    IF n > Len(files) THEN allDeclared
    ELSE IF ParseTranslationFileFails(files[n]) THEN allDeclared
    ELSE DeclaredFrom_StopAtFailure(files, n + 1,
                                    MergeInto(allDeclared, ParseTranslationFile(files[n])))

RECURSIVE DeclaredFrom(_, _, _)
DeclaredFrom(files, n, allDeclared) ==
    IF n > Len(files) THEN allDeclared
    ELSE DeclaredFrom(files, n + 1,
                      IF ParseTranslationFileFails(files[n]) THEN allDeclared
                      ELSE MergeInto(allDeclared, ParseTranslationFile(files[n])))

analyzeDeclaredTranslations(files) == DeclaredFrom(files, 1, EmptyMap)

\* type LocaleAnalysisResult; the lists are bags, their order being the
\* iteration order of Go maps
LocaleAnalysisResult(locale, unused, undeclared, hardcoded, total, usedCount) ==
    [Locale |-> locale, UnusedTranslations |-> unused, UndeclaredTranslations |-> undeclared,
     HardcodedStrings |-> hardcoded, TotalTranslations |-> total, UsedTranslations |-> usedCount]

\* is a a proper ancestor of the dotted key k
IsAncestorKey(a, k) == Len(a) < Len(k) /\ HasPrefix(k, a \o <<".">>)

\* analyzeLocale with a declared key counted as used when a key below it is used
analyzeLocale_AncestorsUsed(locale, files, usedTranslations) ==
    LET all      == analyzeDeclaredTranslations(files)
        declared == [key \in DOMAIN all |-> [all[key] EXCEPT !.Locale = locale]]
        isUsed(key) == \/ key \in DOMAIN usedTranslations
                       \/ \E u \in DOMAIN usedTranslations : IsAncestorKey(key, u)
    IN  LocaleAnalysisResult(locale,
            SetToBag({declared[key] : key \in {k \in DOMAIN declared : ~isUsed(k)}}),
            SetToBag({[usedTranslations[key] EXCEPT !.Locale = locale, !.Declared = FALSE] :
                      key \in {k \in DOMAIN usedTranslations :
                                  /\ usedTranslations[k].Type = "translation_call"
                                  /\ k \notin DOMAIN declared}}),
            EmptyBag, Cardinality(DOMAIN declared), Cardinality(DOMAIN usedTranslations))

\* analyzeLocale without the test of the record's type
analyzeLocale_AnyType(locale, files, usedTranslations) ==
    LET all      == analyzeDeclaredTranslations(files)
        declared == [key \in DOMAIN all |-> [all[key] EXCEPT !.Locale = locale]]
    IN  LocaleAnalysisResult(locale,
            SetToBag({declared[key] : key \in DOMAIN declared \ DOMAIN usedTranslations}),
            SetToBag({[usedTranslations[key] EXCEPT !.Locale = locale, !.Declared = FALSE] :
                      key \in DOMAIN usedTranslations \ DOMAIN declared}),
            EmptyBag, Cardinality(DOMAIN declared), Cardinality(DOMAIN usedTranslations))

\* analyzeLocale reporting nothing as undeclared for a locale that declares
\* no key
analyzeLocale_NothingDeclared(locale, files, usedTranslations) ==
    LET all      == analyzeDeclaredTranslations(files)
        declared == [key \in DOMAIN all |-> [all[key] EXCEPT !.Locale = locale]]
    IN  LocaleAnalysisResult(locale,
            SetToBag({declared[key] : key \in DOMAIN declared \ DOMAIN usedTranslations}),
            SetToBag({[usedTranslations[key] EXCEPT !.Locale = locale, !.Declared = FALSE] :
                      key \in {k \in DOMAIN usedTranslations :
                                  /\ usedTranslations[k].Type = "translation_call"
                                  /\ DOMAIN declared # {}
                                  /\ k \notin DOMAIN declared}}),
            EmptyBag, Cardinality(DOMAIN declared), Cardinality(DOMAIN usedTranslations))

\* analyzeLocale: the declared keys of the locale's files, the declared keys
\* that are no key of the used map, and the translation calls of the used map
\* whose key is not declared
analyzeLocale(locale, files, usedTranslations) ==
    LET all      == analyzeDeclaredTranslations(files)
        declared == [key \in DOMAIN all |-> [all[key] EXCEPT !.Locale = locale]]
    IN  LocaleAnalysisResult(locale,
            SetToBag({declared[key] : key \in DOMAIN declared \ DOMAIN usedTranslations}),
            SetToBag({[usedTranslations[key] EXCEPT !.Locale = locale, !.Declared = FALSE] :
                      key \in {k \in DOMAIN usedTranslations :
                                  /\ usedTranslations[k].Type = "translation_call"
                                  /\ k \notin DOMAIN declared}}),
            EmptyBag, Cardinality(DOMAIN declared), Cardinality(DOMAIN usedTranslations))

\* type AnalysisResult
AnalysisResult(unused, undeclared, hardcoded, total, usedCount, localeResults) ==
    [UnusedTranslations |-> unused, UndeclaredTranslations |-> undeclared,
     HardcodedStrings |-> hardcoded, TotalTranslations |-> total,
     UsedTranslations |-> usedCount, LocaleResults |-> localeResults]

\* the results of NewAnalyzer
NewResults == AnalysisResult(EmptyBag, EmptyBag, EmptyBag, 0, 0, EmptyMap)

\* the hardcoded records of one parsed file appended to allHardcoded, but for
\* those whose key, file and line are already there
RECURSIVE AppendHardcoded(_, _)
AppendHardcoded(allHardcoded, recs) ==
    IF recs = {} THEN allHardcoded
    ELSE LET translation == CHOOSE r \in recs : TRUE
             isDuplicate == \E existing \in BagToSet(allHardcoded) :
                                /\ existing.Key = translation.Key
                                /\ existing.File = translation.File
                                /\ existing.Line = translation.Line
         IN  AppendHardcoded(IF isDuplicate THEN allHardcoded
                             ELSE allHardcoded (+) SetToBag({translation}),
                             recs \ {translation})

\* ------------------------------------------------- the scan of one file

\* the most lines of a source file
MaxLines == 3

\* The lines the source files are made of.
LineUseNS        == <<"u","s","e","T","r","a","n","s","l","a","t","i","o","n","s","(","\"","N","S","\"",")">>
LineConstT       == <<" "," ","c","o","n","s","t"," ","t"," ","="," ","u","s","e","T","r","a","n","s","l","a","t","i","o","n","s","(","'","C","o","m","m","o","n","'",")",";">>
LineAdminUse     == <<"c","o","n","s","t"," ","a","d","m","i","n","T"," ","="," ","u","s","e","T","r","a","n","s","l","a","t","i","o","n","s","(","'","A","d","m","i","n","'",")">>
LineAdminGet     == <<"c","o","n","s","t"," ","a","d","m","i","n","T"," ","="," ","g","e","t","T","r","a","n","s","l","a","t","i","o","n","s","(","'","A","d","m","i","n","'",")">>
LinePageT        == <<"c","o","n","s","t"," ","{"," ","t",":"," ","p","a","g","e","T"," ","}"," ","="," ","u","s","e","T","r","a","n","s","l","a","t","i","o","n","s","(","'","P","a","g","e","C","o","n","t","e","n","t","'",")">>
LineUseAndCall   == <<"u","s","e","T","r","a","n","s","l","a","t","i","o","n","s","(","\"","N","S","\"",")",";"," ","t","(","\"","k","e","y","\"",")">>
LineCallKey      == <<"<","p",">","{","t","(","\"","k","e","y","\"",")","}"," ","{","t","(","'","t","i","t","l","e","'",")","}","<","/","p",">">>
LineCallDotted   == <<"<","b","u","t","t","o","n",">","{","t","(","'","b","u","t","t","o","n",".","s","a","v","e","'",")","}","<","/","b","u","t","t","o","n",">">>
LineCallBound    == <<"<","p",">","{","a","d","m","i","n","T","(","'","c","r","e","a","t","e","d","'",")","}"," ","{","p","a","g","e","T","(","'","h","e","a","d","i","n","g","'",")","}","<","/","p",">">>
LineRich         == <<"{","t",".","r","i","c","h","(","'","m","e","s","s","a","g","e","'",")","}"," ","{","t",".","h","a","s","(","\"","C","o","m","m","o","n",".","b","u","t","t","o","n",".","s","a","v","e","\"",")","}">>
LineForeign      == <<"a","l","e","r","t","(","'","h","i","'",")",";"," ","f","m","t",".","r","i","c","h","(","\"","b","o","d","y","\"",")">>
LineDollar       == <<"{","$","t","(","'","s","a","v","e","'",")","}">>
LineHardcoded    == <<"<","h","1",">","W","e","l","c","o","m","e"," ","t","o"," ","o","u","r"," ","a","p","p","l","i","c","a","t","i","o","n","<","/","h","1",">">>
LineButtonSave   == <<"<","b","u","t","t","o","n"," ","o","n","C","l","i","c","k","=","{","h","a","n","d","l","e","C","l","i","c","k","}",">","S","a","v","e","<","/","b","u","t","t","o","n",">">>
LineClassName    == <<"<","p",">","P","a","s","s"," ","c","l","a","s","s","N","a","m","e","="," ","t","o"," ","s","t","y","l","e"," ","i","t","<","/","p",">">>

LineSet ==
    { LineUseNS, LineConstT, LineAdminUse, LineAdminGet, LinePageT, LineUseAndCall,
      LineCallKey, LineCallDotted, LineCallBound, LineRich, LineForeign, LineDollar,
      LineHardcoded, LineButtonSave, LineClassName }

\* a call whose key is the text of LineHardcoded, in the files of the projects
LineCallText     == <<"{","t","(","'","W","e","l","c","o","m","e"," ","t","o"," ","o","u","r"," ","a","p","p","l","i","c","a","t","i","o","n","'",")","}">>

\* The matches of the lines above, tabulated.
MatchTable == [line \in LineSet \cup {LineCallText} |-> LineMatches(line)]

\* the body of the loop over the lines of ParseSourceFile
ScanLineStep(st, line, filePath, lineNum) ==
    ScanLineWith(st, line, MatchTable[line], filePath, lineNum)

RECURSIVE ScanLines(_, _, _, _)
ScanLines(st, lines, filePath, n) ==
    IF n > Len(lines) THEN st
    ELSE ScanLines(ScanLineStep(st, lines[n], filePath, n), lines, filePath, n + 1)

\* ParseSourceFile on a readable file, as one function: the returned map
ParseSourceFile(f) == MergeUntranslated(ScanLines(ScanStart, f.lines, f.path, 1))

\* the sequences of at most n elements of S
SeqsUpTo(S, n) == UNION {[1..m -> S] : m \in 0..n}

\* a source file: its path, its lines (the content split at "\n") and
\* whether os.ReadFile succeeds on it
SourceFile(path, lines, readable) ==
    [path |-> path, readable |-> readable, lines |-> lines, json |-> FALSE, data |-> Scalar]

\* ParseSourceFile fails when the file cannot be read
ParseSourceFileFails(f) == ~f.readable

\* the path of the file of the scan
ScanPath == <<"s","r","c","/","a",".","t","s","x">>

ScanFiles ==
    {SourceFile(ScanPath, ls, TRUE) : ls \in SeqsUpTo(LineSet, MaxLines)}
        \cup {SourceFile(ScanPath, <<>>, FALSE)}

\* ------------------------------------------------- the catalogs checked

\* the deepest nesting of a generated catalog document
MaxDepth == 2

DocKeys == { <<"a">>, <<"b">> }

\* the JSON values nested at most d deep: scalars, objects over DocKeys and
\* arrays of one element
RECURSIVE Values(_)
Values(d) ==
    IF d = 0 THEN {Scalar}
    ELSE LET below == Values(d - 1)
         IN  {Scalar}
                 \cup {Object(m) : m \in UNION {[S -> below] : S \in SUBSET DocKeys}}
                 \cup {Array(<<v>>) : v \in below}

\* Common -> button -> {save, delete}
DocCommon ==
    Object([k \in {<<"C","o","m","m","o","n">>} |->
        Object([b \in {<<"b","u","t","t","o","n">>} |->
            Object([l \in {<<"s","a","v","e">>, <<"d","e","l","e","t","e">>} |-> Scalar])])])

\* {"A": {"b": "x"}}
DocA == Object([k \in {<<"A">>} |-> Object([b \in {<<"b">>} |-> Scalar])])

\* {"NS": {"key": "..."}, "items": [{"name": "..."}, "..."]}
DocNS ==
    Object([k \in {<<"N","S">>, <<"i","t","e","m","s">>} |->
        IF k = <<"N","S">> THEN Object([b \in {<<"k","e","y">>} |-> Scalar])
        ELSE Array(<<Object([b \in {<<"n","a","m","e">>} |-> Scalar]), Scalar>>)])

\* {"a": {"": ".."}, "b..c": ".."}
DocOddKeys ==
    Object([k \in {<<"a">>, <<"b",".",".","c">>} |->
        IF k = <<"a">> THEN Object([b \in {<<>>} |-> Scalar]) ELSE Scalar])

ExampleDocs == {DocCommon, DocA, DocNS, DocOddKeys}

CatalogPath == <<"m","e","s","s","a","g","e","s","/","e","n",".","j","s","o","n">>

\* the catalog files ParseTranslationFile is checked on: the generated objects
\* and the examples, a file that is no JSON, a file that is JSON but no
\* object, the file that holds null, and a file that cannot be read
CatalogFiles ==
    {CatalogFile(CatalogPath, TRUE, TRUE, d) :
        d \in {v \in Values(MaxDepth) : v.t = "map"} \cup ExampleDocs \cup {Array(<<>>), Scalar, Null}}
        \cup {CatalogFile(CatalogPath, TRUE, FALSE, Scalar), CatalogFile(CatalogPath, FALSE, FALSE, Scalar)}

\* ------------------------------------------------- the projects analyzed

\* the most source files and the most catalog files of a project
MaxSourceFiles == 2

MaxCatalogs == 2

SourcePaths == << <<"s","r","c","/","a",".","t","s","x">>, <<"s","r","c","/","b",".","t","s","x">>, <<"s","r","c","/","c",".","t","s">> >>

\* what a source file of a project holds
SourceContents ==
    { [readable |-> TRUE,  lines |-> <<LineCallText, LineUseNS, LineCallKey>>],
      [readable |-> TRUE,  lines |-> <<LineRich, LineHardcoded, LineCallText>>],
      [readable |-> FALSE, lines |-> <<>>] }

CatalogPaths == { <<"l","o","c","a","l","e","s","/","e","n","/","c","o","m","m","o","n",".","j","s","o","n">>, <<"m","e","s","s","a","g","e","s","/","d","e",".","j","s","o","n">>, <<"m","e","s","s","a","g","e","s","/","e","n",".","j","s","o","n">> }

\* what a catalog file of a project holds
CatalogContents ==
    { [readable |-> TRUE,  json |-> TRUE,  data |-> DocCommon],
      [readable |-> TRUE,  json |-> TRUE,  data |-> DocA],
      [readable |-> TRUE,  json |-> TRUE,  data |-> DocNS],
      [readable |-> FALSE, json |-> FALSE, data |-> Scalar] }

\* files every project holds: a catalog whose path names no locale, a JSON
\* file outside the catalog directories, and a source file of a dependency
OtherCatalog == CatalogFile(<<"m","e","s","s","a","g","e","s","/","c","o","m","m","o","n",".","j","s","o","n">>, TRUE, TRUE, DocA)

PackageJson == CatalogFile(<<"p","a","c","k","a","g","e",".","j","s","o","n">>, TRUE, TRUE, DocA)

DependencyFile == SourceFile(<<"n","o","d","e","_","m","o","d","u","l","e","s","/","p","k","g","/","i","n","d","e","x",".","j","s">>, <<LineCallKey, LineHardcoded>>, TRUE)

\* a < b in the order filepath.Walk lists the files of the projects
RECURSIVE PathBefore(_, _)
PathBefore(a, b) ==
    LET order == <<".", "/">> \o DigitSeq \o UpperSeq \o <<"_">> \o LowerSeq
        pos(c) == CHOOSE i \in 1..Len(order) : order[i] = c
    IN  IF a = <<>> THEN b # <<>>
        ELSE IF b = <<>> THEN FALSE
        ELSE IF a[1] = b[1] THEN PathBefore(Tail(a), Tail(b))
        ELSE pos(a[1]) < pos(b[1])

\* the files of a set, in the order of their paths
RECURSIVE InWalkOrder(_)
InWalkOrder(S) ==
    IF S = {} THEN <<>>
    ELSE LET f == CHOOSE x \in S : \A y \in S \ {x} : PathBefore(x.path, y.path)
         IN  <<f>> \o InWalkOrder(S \ {f})

\* the project directory: whether os.Stat finds it, whether it is a
\* directory, and its files as filepath.Walk lists them
Project(exists, isDir, files) == [exists |-> exists, isDir |-> isDir, files |-> files]

Projects ==
    { Project(TRUE, TRUE,
              InWalkOrder({OtherCatalog, PackageJson, DependencyFile}
                  \cup {SourceFile(SourcePaths[i], src[i].lines, src[i].readable) : i \in DOMAIN src}
                  \cup {CatalogFile(p, cat[p].readable, cat[p].json, cat[p].data) : p \in DOMAIN cat}))
      : src \in UNION {[1..n -> SourceContents] : n \in 0..MaxSourceFiles},
        cat \in UNION {[P -> CatalogContents] :
                          P \in {Q \in SUBSET CatalogPaths : Cardinality(Q) <= MaxCatalogs}} }
        \cup {Project(FALSE, FALSE, <<>>), Project(TRUE, FALSE, <<>>)}

\* ------------------------------------------------------------------ state

\* the nil map or nil result returned with an error, and a value not yet set
Nil == "nil"

VARIABLES
    file,              \* the file ParseSourceFile is called on
    ppc,               \* where ParseSourceFile stands: "idle", "read", "scan", "done", "error"
    lineNum,           \* the number of the last line scanned (1-based)
    currentNamespace,  \* the default namespace, "" at first
    translationVars,   \* variable name -> namespace
    used,              \* key -> Translation, the translation calls
    untranslated,      \* text -> Translation, the hardcoded strings
    result,            \* the map ParseSourceFile returns
    catalog,           \* the file ParseTranslationFile is called on
    cpc,               \* where ParseTranslationFile stands: "idle", "call", "done", "error"
    declared,          \* the map ParseTranslationFile returns
    project,           \* the directory at a.projectPath
    progressCallback,  \* whether a.progressCallback is set
    progressLog,       \* the calls made to the progress callback, in order
    apc,               \* where Analyze stands
    translationFiles,  \* Analyze's translationFiles
    sourceFiles,       \* Analyze's sourceFiles
    localeFiles,       \* Analyze's localeFiles: locale -> files
    fileIndex,         \* i of the loop of analyzeUsedTranslations
    allUsed,           \* allUsed of analyzeUsedTranslations, then usedTranslations
    localesLeft,       \* the locales the loop of Analyze has yet to visit
    localeIndex,       \* Analyze's localeIndex
    results,           \* a.results
    returned,          \* what Analyze returns: [value, err]
    quiet,             \* the flag --quiet
    report,            \* the flag --report
    reportFails,       \* whether os.MkdirAll or os.WriteFile of the report fails
    mpc,               \* where the process stands, from main to its exit
    exitCode,          \* the exit code of the process
    span,              \* the trimmed text of a captured span
    kpc,               \* where the classification of the span stands
    numeric            \* what isNumeric said of the span: "yes", "no", "unreached"

scanVars ==
    <<file, ppc, lineNum, currentNamespace, translationVars, used, untranslated, result>>

catalogVars == <<catalog, cpc, declared>>

analyzeVars ==
    <<project, progressCallback, progressLog, apc, translationFiles, sourceFiles, localeFiles,
      fileIndex, allUsed, localesLeft, localeIndex, results, returned>>

cmdVars == <<quiet, report, reportFails, mpc, exitCode>>

classifyVars == <<span, kpc, numeric>>

vars == <<scanVars, catalogVars, analyzeVars, cmdVars, classifyVars>>

\* no ParseSourceFile call under way
ScanIdle ==
    /\ file = SourceFile(ScanPath, <<>>, FALSE)
    /\ ppc = "idle"
    /\ lineNum = 0
    /\ currentNamespace = ScanStart.currentNamespace
    /\ translationVars = ScanStart.translationVars
    /\ used = ScanStart.used
    /\ untranslated = ScanStart.untranslated
    /\ result = Nil

\* no ParseTranslationFile call under way
CatalogIdle ==
    /\ catalog = CatalogFile(CatalogPath, FALSE, FALSE, Scalar)
    /\ cpc = "idle"
    /\ declared = Nil

\* no Analyze call under way
AnalyzeIdle ==
    /\ project = Project(FALSE, FALSE, <<>>)
    /\ progressCallback = FALSE
    /\ progressLog = <<>>
    /\ apc = "idle"
    /\ translationFiles = <<>>
    /\ sourceFiles = <<>>
    /\ localeFiles = EmptyMap
    /\ fileIndex = 0
    /\ allUsed = EmptyMap
    /\ localesLeft = {}
    /\ localeIndex = 0
    /\ results = NewResults
    /\ returned = Nil

\* no process running the command
CmdIdle ==
    /\ quiet = FALSE
    /\ report = FALSE
    /\ reportFails = FALSE
    /\ mpc = "idle"
    /\ exitCode = Nil

\* no span under classification
ClassifyIdle ==
    /\ span = <<>>
    /\ kpc = "idle"
    /\ numeric = "unreached"

\* ------------------------------------------- ParseSourceFile, step by step

ScanState ==
    [currentNamespace |-> currentNamespace, translationVars |-> translationVars,
     used |-> used, untranslated |-> untranslated]

ScanInit ==
    /\ file \in ScanFiles
    /\ ppc = "read"
    /\ lineNum = 0
    /\ currentNamespace = ScanStart.currentNamespace
    /\ translationVars = ScanStart.translationVars
    /\ used = ScanStart.used
    /\ untranslated = ScanStart.untranslated
    /\ result = Nil
    /\ CatalogIdle
    /\ AnalyzeIdle
    /\ CmdIdle
    /\ ClassifyIdle

\* os.ReadFile and strings.Split
ReadFile ==
    /\ ppc = "read"
    /\ ppc' = IF file.readable THEN "scan" ELSE "error"
    /\ UNCHANGED <<file, lineNum, currentNamespace, translationVars, used, untranslated, result>>
    /\ UNCHANGED <<catalogVars, analyzeVars, cmdVars, classifyVars>>

\* one iteration of the loop over the lines
ScanLine ==
    /\ ppc = "scan"
    /\ lineNum < Len(file.lines)
    /\ \E st \in {ScanLineStep(ScanState, file.lines[lineNum + 1], file.path, lineNum + 1)} :
           /\ currentNamespace' = st.currentNamespace
           /\ translationVars' = st.translationVars
           /\ used' = st.used
           /\ untranslated' = st.untranslated
    /\ lineNum' = lineNum + 1
    /\ UNCHANGED <<file, ppc, result>>
    /\ UNCHANGED <<catalogVars, analyzeVars, cmdVars, classifyVars>>

\* the merge of the hardcoded records and the return
Return ==
    /\ ppc = "scan"
    /\ lineNum = Len(file.lines)
    /\ result' = MergeUntranslated(ScanState)
    /\ ppc' = "done"
    /\ UNCHANGED <<file, lineNum, currentNamespace, translationVars, used, untranslated>>
    /\ UNCHANGED <<catalogVars, analyzeVars, cmdVars, classifyVars>>

ScanNext == ReadFile \/ ScanLine \/ Return


\* --------------------------------------------------- ParseTranslationFile

CatalogInit ==
    /\ catalog \in CatalogFiles
    /\ cpc = "call"
    /\ declared = Nil
    /\ ScanIdle
    /\ AnalyzeIdle
    /\ CmdIdle
    /\ ClassifyIdle

\* ParseTranslationFile(catalog): an error, or the declared keys of the file
ParseCatalog ==
    /\ cpc = "call"
    /\ IF ParseTranslationFileFails(catalog)
       THEN cpc' = "error" /\ declared' = Nil
       ELSE cpc' = "done" /\ declared' = ParseTranslationFile(catalog)
    /\ UNCHANGED <<catalog, scanVars, analyzeVars, cmdVars, classifyVars>>

CatalogNext == ParseCatalog

\* ---------------------------------------------------------------- Analyze

\* the hardcoded records of the source files, each file parsed again and its
\* records appended but for duplicates; a file that fails is passed over
HardcodedOf(parsed) ==
    {parsed[k] : k \in {x \in DOMAIN parsed : parsed[x].Type = "hardcoded_string"}}

RECURSIVE CollectHardcoded(_, _, _)
CollectHardcoded(files, n, allHardcoded) ==
    IF n > Len(files) THEN allHardcoded
    ELSE CollectHardcoded(files, n + 1,
            IF ParseSourceFileFails(files[n]) THEN allHardcoded
            ELSE AppendHardcoded(allHardcoded, HardcodedOf(ParseSourceFile(files[n]))))

\* the sum of the values of a function
RECURSIVE SumOver(_)
SumOver(f) ==
    IF DOMAIN f = {} THEN 0
    ELSE LET x == CHOOSE y \in DOMAIN f : TRUE
         IN  f[x] + SumOver([y \in DOMAIN f \ {x} |-> f[y]])

\* n copies of every element of a bag
Times(bag, n) == [r \in DOMAIN bag |-> bag[r] * n]

\* generateOverallResults with the hardcoded strings appended once, and once
\* more for every locale
generateOverallResults_HardcodedPerLocale(res, files) ==
    LET lr == res.LocaleResults
    IN  AnalysisResult(SumBags({lr[l].UnusedTranslations : l \in DOMAIN lr}),
                       SumBags({lr[l].UndeclaredTranslations : l \in DOMAIN lr}),
                       Times(CollectHardcoded(findSourceFiles(files), 1, EmptyBag),
                             Cardinality(DOMAIN lr) + 1),
                       SumOver([l \in DOMAIN lr |-> lr[l].TotalTranslations]),
                       SumOver([l \in DOMAIN lr |-> lr[l].UsedTranslations]),
                       lr)

\* generateOverallResults with the used keys counted once, not once for
\* every locale
generateOverallResults_UsedOnce(res, files) ==
    LET lr == res.LocaleResults
    IN  AnalysisResult(SumBags({lr[l].UnusedTranslations : l \in DOMAIN lr}),
                       SumBags({lr[l].UndeclaredTranslations : l \in DOMAIN lr}),
                       CollectHardcoded(findSourceFiles(files), 1, EmptyBag),
                       SumOver([l \in DOMAIN lr |-> lr[l].TotalTranslations]),
                       IF DOMAIN lr = {} THEN 0
                       ELSE lr[CHOOSE l \in DOMAIN lr : TRUE].UsedTranslations,
                       lr)

\* generateOverallResults: a.results after it, the source files being found
\* and parsed again for the hardcoded strings
generateOverallResults(res, files) ==
    LET lr == res.LocaleResults
    IN  AnalysisResult(SumBags({lr[l].UnusedTranslations : l \in DOMAIN lr}),
                       SumBags({lr[l].UndeclaredTranslations : l \in DOMAIN lr}),
                       CollectHardcoded(findSourceFiles(files), 1, EmptyBag),
                       SumOver([l \in DOMAIN lr |-> lr[l].TotalTranslations]),
                       SumOver([l \in DOMAIN lr |-> lr[l].UsedTranslations]),
                       lr)

\* the progress log after the callback, if there is one, is called
Progress(log, stage, progress, total) ==
    IF progressCallback THEN Append(log, <<stage, progress, total>>) ELSE log

AnalyzeInit ==
    /\ project \in Projects
    /\ progressCallback \in BOOLEAN
    /\ progressLog = <<>>
    /\ apc = "validate"
    /\ translationFiles = <<>>
    /\ sourceFiles = <<>>
    /\ localeFiles = EmptyMap
    /\ fileIndex = 0
    /\ allUsed = EmptyMap
    /\ localesLeft = {}
    /\ localeIndex = 0
    /\ results = NewResults
    /\ returned = Nil
    /\ ScanIdle
    /\ CatalogIdle
    /\ CmdIdle
    /\ ClassifyIdle

\* Validate without the test of the project path
Validate_Unchecked ==
    /\ apc = "validate"
    /\ apc' = "findTranslationFiles"
    /\ UNCHANGED <<project, progressCallback, progressLog, translationFiles, sourceFiles,
                   localeFiles, fileIndex, allUsed, localesLeft, localeIndex, results, returned>>
    /\ UNCHANGED <<scanVars, catalogVars, cmdVars, classifyVars>>

\* validateProjectPath; Analyze returns its error
Validate ==
    /\ apc = "validate"
    /\ IF project.exists /\ project.isDir
       THEN apc' = "findTranslationFiles" /\ UNCHANGED returned
       ELSE apc' = "failed" /\ returned' = [value |-> Nil, err |-> TRUE]
    /\ UNCHANGED <<project, progressCallback, progressLog, translationFiles, sourceFiles,
                   localeFiles, fileIndex, allUsed, localesLeft, localeIndex, results>>
    /\ UNCHANGED <<scanVars, catalogVars, cmdVars, classifyVars>>

FindTranslationFiles ==
    /\ apc = "findTranslationFiles"
    /\ progressLog' = Progress(progressLog, <<"F","i","n","d","i","n","g"," ","t","r","a","n","s","l","a","t","i","o","n"," ","f","i","l","e","s">>, 0, 1)
    /\ translationFiles' = findTranslationFiles(project.files)
    /\ apc' = "findSourceFiles"
    /\ UNCHANGED <<project, progressCallback, sourceFiles, localeFiles, fileIndex, allUsed,
                   localesLeft, localeIndex, results, returned>>
    /\ UNCHANGED <<scanVars, catalogVars, cmdVars, classifyVars>>

FindSourceFiles ==
    /\ apc = "findSourceFiles"
    /\ progressLog' = Progress(progressLog, <<"F","i","n","d","i","n","g"," ","s","o","u","r","c","e"," ","f","i","l","e","s">>, 0, 1)
    /\ sourceFiles' = findSourceFiles(project.files)
    /\ apc' = "group"
    /\ UNCHANGED <<project, progressCallback, translationFiles, localeFiles, fileIndex, allUsed,
                   localesLeft, localeIndex, results, returned>>
    /\ UNCHANGED <<scanVars, catalogVars, cmdVars, classifyVars>>

GroupFiles ==
    /\ apc = "group"
    /\ progressLog' = Progress(progressLog, <<"G","r","o","u","p","i","n","g"," ","f","i","l","e","s"," ","b","y"," ","l","o","c","a","l","e">>, 0, 1)
    /\ localeFiles' = groupTranslationFilesByLocale(translationFiles)
    /\ apc' = "analyzeUsed"
    /\ UNCHANGED <<project, progressCallback, translationFiles, sourceFiles, fileIndex, allUsed,
                   localesLeft, localeIndex, results, returned>>
    /\ UNCHANGED <<scanVars, catalogVars, cmdVars, classifyVars>>

\* the call of analyzeUsedTranslations
StartAnalyzeUsed ==
    /\ apc = "analyzeUsed"
    /\ progressLog' = Progress(progressLog, <<"A","n","a","l","y","z","i","n","g"," ","s","o","u","r","c","e"," ","f","i","l","e","s">>, 0, Len(sourceFiles))
    /\ fileIndex' = 0
    /\ allUsed' = EmptyMap
    /\ apc' = "sources"
    /\ UNCHANGED <<project, progressCallback, translationFiles, sourceFiles, localeFiles,
                   localesLeft, localeIndex, results, returned>>
    /\ UNCHANGED <<scanVars, catalogVars, cmdVars, classifyVars>>

\* one iteration of the loop of analyzeUsedTranslations
AnalyzeSourceFile ==
    /\ apc = "sources"
    /\ fileIndex < Len(sourceFiles)
    /\ progressLog' = Progress(progressLog, <<"A","n","a","l","y","z","i","n","g"," ","s","o","u","r","c","e"," ","f","i","l","e","s">>, fileIndex + 1, Len(sourceFiles))
    /\ allUsed' = IF ParseSourceFileFails(sourceFiles[fileIndex + 1]) THEN allUsed
                  ELSE MergeInto(allUsed, ParseSourceFile(sourceFiles[fileIndex + 1]))
    /\ fileIndex' = fileIndex + 1
    /\ UNCHANGED <<project, progressCallback, apc, translationFiles, sourceFiles, localeFiles,
                   localesLeft, localeIndex, results, returned>>
    /\ UNCHANGED <<scanVars, catalogVars, cmdVars, classifyVars>>

\* analyzeUsedTranslations returns; the loop over the locales begins
EndAnalyzeUsed ==
    /\ apc = "sources"
    /\ fileIndex = Len(sourceFiles)
    /\ localesLeft' = DOMAIN localeFiles
    /\ localeIndex' = 0
    /\ apc' = "locales"
    /\ UNCHANGED <<project, progressCallback, progressLog, translationFiles, sourceFiles,
                   localeFiles, fileIndex, allUsed, results, returned>>
    /\ UNCHANGED <<scanVars, catalogVars, cmdVars, classifyVars>>

\* one iteration of the loop over the locales, in the order of a Go map
AnalyzeLocale ==
    /\ apc = "locales"
    /\ \E locale \in localesLeft :
          /\ progressLog' = Progress(progressLog, <<"A","n","a","l","y","z","i","n","g"," ","l","o","c","a","l","e"," ">> \o locale, localeIndex,
                                     Cardinality(DOMAIN localeFiles))
          /\ results' = [results EXCEPT !.LocaleResults =
                            Put(@, locale, analyzeLocale(locale, localeFiles[locale], allUsed))]
          /\ localesLeft' = localesLeft \ {locale}
    /\ localeIndex' = localeIndex + 1
    /\ UNCHANGED <<project, progressCallback, apc, translationFiles, sourceFiles, localeFiles,
                   fileIndex, allUsed, returned>>
    /\ UNCHANGED <<scanVars, catalogVars, cmdVars, classifyVars>>

\* generateOverallResults and its progress calls
GenerateResults ==
    /\ apc = "locales"
    /\ localesLeft = {}
    /\ LET n      == Len(findSourceFiles(project.files))
           first  == Progress(progressLog, <<"G","e","n","e","r","a","t","i","n","g"," ","r","e","s","u","l","t","s">>, 0, 1)
           perFile == [i \in 1..n |-> <<<<"F","i","n","d","i","n","g"," ","h","a","r","d","c","o","d","e","d"," ","s","t","r","i","n","g","s">>, i, n>>]
       IN  progressLog' = IF progressCallback THEN first \o perFile ELSE progressLog
    /\ results' = generateOverallResults(results, project.files)
    /\ apc' = "complete"
    /\ UNCHANGED <<project, progressCallback, translationFiles, sourceFiles, localeFiles,
                   fileIndex, allUsed, localesLeft, localeIndex, returned>>
    /\ UNCHANGED <<scanVars, catalogVars, cmdVars, classifyVars>>

\* Complete without its progress call
Complete_Unreported ==
    /\ apc = "complete"
    /\ returned' = [value |-> results, err |-> FALSE]
    /\ apc' = "done"
    /\ UNCHANGED <<project, progressCallback, progressLog, translationFiles, sourceFiles,
                   localeFiles, fileIndex, allUsed, localesLeft, localeIndex, results>>
    /\ UNCHANGED <<scanVars, catalogVars, cmdVars, classifyVars>>

\* the last progress call and the return of the results
Complete ==
    /\ apc = "complete"
    /\ progressLog' = Progress(progressLog, <<"C","o","m","p","l","e","t","e">>, 1, 1)
    /\ returned' = [value |-> results, err |-> FALSE]
    /\ apc' = "done"
    /\ UNCHANGED <<project, progressCallback, translationFiles, sourceFiles, localeFiles,
                   fileIndex, allUsed, localesLeft, localeIndex, results>>
    /\ UNCHANGED <<scanVars, catalogVars, cmdVars, classifyVars>>

AnalyzeNext ==
    \/ Validate
    \/ FindTranslationFiles
    \/ FindSourceFiles
    \/ GroupFiles
    \/ StartAnalyzeUsed
    \/ AnalyzeSourceFile
    \/ EndAnalyzeUsed
    \/ AnalyzeLocale
    \/ GenerateResults
    \/ Complete

\* --------------------------------------------------- the specifications

\* ParseSourceFile on one file
Init == ScanInit

Next == ScanNext

Spec == Init /\ [][Next]_vars

\* ParseTranslationFile on one file
CatalogSpec == CatalogInit /\ [][CatalogNext]_vars

\* Analyze on one project
AnalyzeSpec == AnalyzeInit /\ [][AnalyzeNext]_vars


\* ------------------------------------------------- the command `analyze`

\* the projects the command is run on: those of at most two files of their
\* own, and the two paths that are no directory
CmdProjects == {p \in Projects : Len(p.files) <= 5}

\* the test at the end of displayResults
HasFindings(res) ==
    \/ res.UnusedTranslations # EmptyBag
    \/ res.UndeclaredTranslations # EmptyBag
    \/ res.HardcodedStrings # EmptyBag

\* the process is started on `analyze [--quiet] [--report] <project>`
CmdInit ==
    /\ project \in CmdProjects
    /\ progressCallback = FALSE
    /\ progressLog = <<>>
    /\ apc = "idle"
    /\ translationFiles = <<>>
    /\ sourceFiles = <<>>
    /\ localeFiles = EmptyMap
    /\ fileIndex = 0
    /\ allUsed = EmptyMap
    /\ localesLeft = {}
    /\ localeIndex = 0
    /\ results = NewResults
    /\ returned = Nil
    /\ quiet \in BOOLEAN
    /\ report \in BOOLEAN
    /\ reportFails \in BOOLEAN
    /\ mpc = "main"
    /\ exitCode = Nil
    /\ ScanIdle
    /\ CatalogIdle
    /\ ClassifyIdle

\* main and RunE up to the call of Analyze: the analyzer is made and the
\* progress callback is set
RunE ==
    /\ mpc = "main"
    /\ progressCallback' = TRUE
    /\ apc' = "validate"
    /\ mpc' = "analyze"
    /\ UNCHANGED <<project, progressLog, translationFiles, sourceFiles, localeFiles, fileIndex,
                   allUsed, localesLeft, localeIndex, results, returned>>
    /\ UNCHANGED <<quiet, report, reportFails, exitCode>>
    /\ UNCHANGED <<scanVars, catalogVars, classifyVars>>

\* a step of Analyze
CmdAnalyze ==
    /\ mpc = "analyze"
    /\ AnalyzeNext

\* Analyze has returned an error: RunE returns it, main prints it and exits
AnalysisFailed ==
    /\ mpc = "analyze"
    /\ apc = "failed"
    /\ exitCode' = 1
    /\ mpc' = "exited"
    /\ UNCHANGED <<quiet, report, reportFails>>
    /\ UNCHANGED <<scanVars, catalogVars, analyzeVars, classifyVars>>

\* Analyze has returned the results
AnalysisComplete ==
    /\ mpc = "analyze"
    /\ apc = "done"
    /\ mpc' = IF report THEN "report" ELSE "display"
    /\ UNCHANGED <<quiet, report, reportFails, exitCode>>
    /\ UNCHANGED <<scanVars, catalogVars, analyzeVars, classifyVars>>

\* generateMarkdownReport: its error is returned by RunE, main prints it
\* and exits
GenerateMarkdownReport ==
    /\ mpc = "report"
    /\ IF reportFails
       THEN exitCode' = 1 /\ mpc' = "exited"
       ELSE mpc' = "display" /\ UNCHANGED exitCode
    /\ UNCHANGED <<quiet, report, reportFails>>
    /\ UNCHANGED <<scanVars, catalogVars, analyzeVars, classifyVars>>

\* displayResults unless --quiet, which exits with 1 when there are
\* findings; otherwise RunE returns nil and main returns
DisplayResults ==
    /\ mpc = "display"
    /\ exitCode' = IF ~quiet /\ HasFindings(returned.value) THEN 1 ELSE 0
    /\ mpc' = "exited"
    /\ UNCHANGED <<quiet, report, reportFails>>
    /\ UNCHANGED <<scanVars, catalogVars, analyzeVars, classifyVars>>

CmdNext ==
    \/ RunE
    \/ CmdAnalyze
    \/ AnalysisFailed
    \/ AnalysisComplete
    \/ GenerateMarkdownReport
    \/ DisplayResults

\* the command run on one project
CmdSpec == CmdInit /\ [][CmdNext]_vars

\* ------------------------------------- the classification of one span

\* the most words of a span
MaxWords == 3

\* the words the spans are made of
SpanWords ==
    { <<"N","i","c","e">>, <<"w","e","a","t","h","e","r","!">>, <<"a","b">>, <<"1","2">>, <<"3">>, <<"W","e","l","c","o","m","e">>, <<"c","l","a","s","s","N","a","m","e","=">> }

\* the words of a sequence, with one space between them
RECURSIVE JoinWords(_)
JoinWords(ws) ==
    IF Len(ws) = 1 THEN ws[1] ELSE ws[1] \o <<" ">> \o JoinWords(Tail(ws))

\* the spans classified: the span patterns capture no text without a letter
Spans ==
    { s \in { JoinWords(ws) : ws \in SeqsUpTo(SpanWords, MaxWords) \ {<<>>} } :
        \E i \in 1..Len(s) : s[i] \in Alpha }

ClassifyInit ==
    /\ span \in Spans
    /\ kpc = "screen"
    /\ numeric = "unreached"
    /\ ScanIdle
    /\ CatalogIdle
    /\ AnalyzeIdle
    /\ CmdIdle

\* the rejections before the call of isNumeric: each of them ends the
\* iteration for the span
ScreenSpan ==
    /\ kpc = "screen"
    /\ kpc' = IF SkipBeforeNumeric(span) THEN "skipped" ELSE "isNumeric"
    /\ UNCHANGED <<span, numeric>>
    /\ UNCHANGED <<scanVars, catalogVars, analyzeVars, cmdVars>>

\* the call of isNumeric and the rejection of a single character
CheckNumeric ==
    /\ kpc = "isNumeric"
    /\ numeric' = IF isNumeric(span) THEN "yes" ELSE "no"
    /\ kpc' = IF isNumeric(span) \/ SkipAfterNumeric(span) THEN "skipped"
              ELSE "isUserFacingText"
    /\ UNCHANGED span
    /\ UNCHANGED <<scanVars, catalogVars, analyzeVars, cmdVars>>

\* the call of isUserFacingText: the span is recorded as hardcoded text or
\* dropped
ClassifySpan ==
    /\ kpc = "isUserFacingText"
    /\ kpc' = IF isUserFacingText(span) THEN "accepted" ELSE "rejected"
    /\ UNCHANGED <<span, numeric>>
    /\ UNCHANGED <<scanVars, catalogVars, analyzeVars, cmdVars>>

ClassifyNext == ScreenSpan \/ CheckNumeric \/ ClassifySpan

\* the classification of one captured span
ClassifySpec == ClassifyInit /\ [][ClassifyNext]_vars
\* ------------------------------------------------------------------------
\* Properties of the scan (ParseSourceFile), checked under Spec.
\* The calls and bindings of a line are found here by plain text search for
\* the written call, not with the patterns of the scanner.

NsPool == { <<"N","S">>, <<"C","o","m","m","o","n">>, <<"A","d","m","i","n">>, <<"P","a","g","e","C","o","n","t","e","n","t">> }

PlainKeys == { <<"k","e","y">>, <<"t","i","t","l","e">>, <<"c","r","e","a","t","e","d">>, <<"h","e","a","d","i","n","g">>, <<"m","e","s","s","a","g","e">>, <<"s","a","v","e">>,
               <<"h","i">>, <<"b","o","d","y">> }

DottedKeys == { <<"b","u","t","t","o","n",".","s","a","v","e">>, <<"C","o","m","m","o","n",".","b","u","t","t","o","n",".","s","a","v","e">> }

Methods == { <<"r","i","c","h">>, <<"m","a","r","k","u","p">>, <<"r","a","w">>, <<"h","a","s">> }

\* a character that continues a JavaScript identifier or member expression to the left
IdentCh == WordCh \cup {"$", "."}

\* the text f('key') or f("key")
CallText(f, q, key) == f \o <<"(">> \o <<q>> \o key \o <<q>> \o <<")">>

\* the line holds the call f("key") of the identifier f itself
HasCall(line, f, key) ==
    \E q \in QuoteCh : \E i \in 0..Len(line) :
        /\ IsAt(CallText(f, q, key), line, i)
        /\ i = 0 \/ line[i] \notin IdentCh

\* the line holds the call f.rich("key"), f.markup("key"), f.raw("key") or f.has("key")
HasMethodCall(line, f, key) ==
    \E meth \in Methods : HasCall(line, f \o <<".">> \o meth, key)

\* the namespaces ns for which the line holds useTranslations('ns') or getTranslations('ns')
HookNs(line) ==
    {ns \in NsPool : \E q \in QuoteCh :
        \/ Contains(line, CallText(<<"u","s","e","T","r","a","n","s","l","a","t","i","o","n","s">>, q, ns))
        \/ Contains(line, CallText(<<"g","e","t","T","r","a","n","s","l","a","t","i","o","n","s">>, q, ns))}

\* the line holds useTranslations('ns'), not assigned to anything
BareHook(line, ns) ==
    /\ \E q \in QuoteCh : Contains(line, CallText(<<"u","s","e","T","r","a","n","s","l","a","t","i","o","n","s">>, q, ns))
    /\ ~Contains(line, <<"=">>)

Dot(ns, key) == ns \o <<".">> \o key

\* the identifiers called in the lines
Idents == { <<"t">>, <<"a","d","m","i","n","T">>, <<"p","a","g","e","T">>, <<"a","l","e","r","t">>, <<"f","m","t">>, <<"$","t">> }

\* what the text search finds in each line, tabulated
Written ==
    [line \in LineSet |->
        [hookNs  |-> HookNs(line),
         bareNs  |-> {ns \in NsPool : BareHook(line, ns)},
         calls   |-> {c \in Idents \X (PlainKeys \cup DottedKeys) : HasCall(line, c[1], c[2])},
         methods |-> {c \in Idents \X (PlainKeys \cup DottedKeys) : HasMethodCall(line, c[1], c[2])}]]


\* the records so far: the returned map once ParseSourceFile has returned,
\* the used map before
Recorded == IF ppc = "done" THEN result ELSE used

IsCallRecord(m, key) ==
    /\ key \in DOMAIN m
    /\ m[key].Key = key
    /\ m[key].Type = "translation_call"
    /\ m[key].File = file.path

\* C1 as stated: after a line with a bare useTranslations("NS"), every
\* t("key") with a dot-free key on a later line is recorded as NS.key, as long
\* as no line in between (or that line) sets a different default namespace.
C1_AsStated ==
    \A i \in 1..lineNum : \A j \in (i + 1)..lineNum : \A ns \in NsPool : \A k \in PlainKeys :
        ( /\ ns \in Written[file.lines[i]].bareNs
          /\ \A m \in (i + 1)..j : Written[file.lines[m]].hookNs \subseteq {ns}
          /\ <<<<"t">>, k>> \in Written[file.lines[j]].calls )
        => Dot(ns, k) \in DOMAIN Recorded

\* C1, amended: the same, for the later lines that hold no useTranslations or
\* getTranslations call themselves (a line that holds one is only read for
\* its namespace).
C1_DefaultNamespace ==
    \A i \in 1..lineNum : \A j \in (i + 1)..lineNum : \A ns \in NsPool : \A k \in PlainKeys :
        ( /\ ns \in Written[file.lines[i]].bareNs
          /\ \A m \in (i + 1)..(j - 1) : Written[file.lines[m]].hookNs \subseteq {ns}
          /\ Written[file.lines[j]].hookNs = {}
          /\ <<<<"t">>, k>> \in Written[file.lines[j]].calls )
        => /\ Dot(ns, k) \in DOMAIN Recorded
           /\ IsCallRecord(used, Dot(ns, k))

\* a scan that has read useTranslations("NS"), then a line that binds the
\* same namespace again, then t("key"): NS.key is recorded
C1_Witness ==
    /\ lineNum = 3
    /\ file.lines[1] = LineUseNS
    /\ file.lines[2] = LineUseAndCall
    /\ file.lines[3] = LineCallKey
    /\ IsCallRecord(used, Dot(<<"N","S">>, <<"k","e","y">>))
    /\ used[Dot(<<"N","S">>, <<"k","e","y">>)].Line = 3

C3_AsStated ==
    ( /\ ppc = "done"
      /\ \E i \in 1..Len(file.lines) : \E j \in (i + 1)..Len(file.lines) :
            /\ Contains(file.lines[i], <<"c","o","n","s","t"," ","t"," ","="," ","u","s","e","T","r","a","n","s","l","a","t","i","o","n","s","(","'","C","o","m","m","o","n","'",")">>)
            /\ \A m \in (i + 1)..j : Written[file.lines[m]].hookNs = {}
            /\ <<<<"t">>, <<"b","u","t","t","o","n",".","s","a","v","e">>>> \in Written[file.lines[j]].calls )
    => Dot(<<"C","o","m","m","o","n">>, <<"b","u","t","t","o","n",".","s","a","v","e">>) \in DOMAIN result

\* C4 as stated: const adminT = useTranslations('Admin') (or getTranslations)
\* followed on a later line by adminT('created'): Admin.created is returned as
\* a translation_call.
C4_AsStated ==
    ( /\ ppc = "done"
      /\ \E i \in 1..Len(file.lines) : \E j \in (i + 1)..Len(file.lines) :
            /\ \/ Contains(file.lines[i], <<"c","o","n","s","t"," ","a","d","m","i","n","T"," ","="," ","u","s","e","T","r","a","n","s","l","a","t","i","o","n","s","(","'","A","d","m","i","n","'",")">>)
               \/ Contains(file.lines[i], <<"c","o","n","s","t"," ","a","d","m","i","n","T"," ","="," ","g","e","t","T","r","a","n","s","l","a","t","i","o","n","s","(","'","A","d","m","i","n","'",")">>)
            /\ \A m \in (i + 1)..j : Written[file.lines[m]].hookNs = {}
            /\ <<<<"a","d","m","i","n","T">>, <<"c","r","e","a","t","e","d">>>> \in Written[file.lines[j]].calls )
    => IsCallRecord(result, Dot(<<"A","d","m","i","n">>, <<"c","r","e","a","t","e","d">>))

\* C5 as stated: const { t: pageT } = useTranslations('PageContent') followed
\* on a later line by pageT('heading'): PageContent.heading is returned as a
\* translation_call.
C5_AsStated ==
    ( /\ ppc = "done"
      /\ \E i \in 1..Len(file.lines) : \E j \in (i + 1)..Len(file.lines) :
            /\ Contains(file.lines[i], <<"c","o","n","s","t"," ","{"," ","t",":"," ","p","a","g","e","T"," ","}"," ","="," ","u","s","e","T","r","a","n","s","l","a","t","i","o","n","s","(","'","P","a","g","e","C","o","n","t","e","n","t","'",")">>)
            /\ \A m \in (i + 1)..j : Written[file.lines[m]].hookNs = {}
            /\ <<<<"p","a","g","e","T">>, <<"h","e","a","d","i","n","g">>>> \in Written[file.lines[j]].calls )
    => IsCallRecord(result, Dot(<<"P","a","g","e","C","o","n","t","e","n","t">>, <<"h","e","a","d","i","n","g">>))

\* the identifiers of the lines that are neither t nor bound by any line
OtherIdents == { <<"a","l","e","r","t">>, <<"f","m","t">>, <<"$","t">> }

\* the line calls identifiers of OtherIdents and makes no call of t or of a
\* bound name
OnlyOtherCalls(line) ==
    LET all == Written[line].calls \cup Written[line].methods
    IN  /\ \E c \in all : c[1] \in OtherIdents
        /\ \A c \in all : c[1] # <<"t">> /\ c[1] \notin DOMAIN translationVars

\* C6 as stated: a call f("key") or f.rich|markup|raw|has("key") of an
\* identifier f that is not t and not in the binding table produces no
\* translation_call record: scanning a line that holds only such calls leaves
\* the used map as it was.
C6_AsStated ==
    [][ ( /\ ppc = "scan" /\ lineNum' = lineNum + 1
          /\ OnlyOtherCalls(file.lines[lineNum']) )
        => used' = used ]_vars


\* ------------------------------------------------------------------------
\* Properties of the hardcoded-text classifier, checked under Spec.

\* the candidate spans of the lines: what the span patterns capture, trimmed
Candidates ==
    [line \in LineSet |->
        UNION { {SpansOf(hardcodedPatterns[p], line)[n] :
                    n \in DOMAIN SpansOf(hardcodedPatterns[p], line)}
                : p \in DOMAIN hardcodedPatterns }]

\* the candidate spans for which a rejection holds
Rejected == {s \in UNION {Candidates[line] : line \in LineSet} : SkipSpan(s)}

\* the candidate spans isUserFacingText accepts
Acceptable == {s \in UNION {Candidates[line] : line \in LineSet} : isUserFacingText(s)}

IsHardcodedRecord(m, text) ==
    /\ text \in DOMAIN m
    /\ m[text].Key = text
    /\ m[text].Type = "hardcoded_string"
    /\ m[text].File = file.path

\* the hardcoded records so far
HardcodedKeys ==
    DOMAIN untranslated
        \cup (IF ppc = "done" THEN {k \in DOMAIN result : result[k].Type = "hardcoded_string"}
              ELSE {})

\* C17: no candidate span for which a rejection condition holds becomes a
\* hardcoded-text record, whatever acceptance heuristic it satisfies; a span
\* that holds className= is never reported.
C17_RejectedNeverReported ==
    /\ HardcodedKeys \subseteq UNION {Candidates[file.lines[i]] : i \in 1..lineNum}
    /\ HardcodedKeys \cap Rejected = {}
    /\ \A k \in HardcodedKeys : ~Contains(k, <<"c","l","a","s","s","N","a","m","e","=">>)

\* a file has been scanned that holds the span Save, which a rejection
\* condition and the short-word acceptance both hold for, a span with
\* className=, and a span that is reported
C17_Witness ==
    /\ ppc = "done"
    /\ file.lines = <<LineButtonSave, LineClassName, LineHardcoded>>
    /\ <<"S","a","v","e">> \in Rejected \cap Acceptable
    /\ <<"P","a","s","s"," ","c","l","a","s","s","N","a","m","e","="," ","t","o"," ","s","t","y","l","e"," ","i","t">> \in Rejected
    /\ HardcodedKeys = { <<"W","e","l","c","o","m","e"," ","t","o"," ","o","u","r"," ","a","p","p","l","i","c","a","t","i","o","n">> }

\* a span of length 2 to 4 that equals, but for case, a word of the short list
IsShortUIWord(s) ==
    /\ Len(s) >= 2 /\ Len(s) <= 4
    /\ \E w \in DOMAIN ShortUIWords : EqualFold(s, ShortUIWords[w])

\* C18 (as stated): a candidate span of length 2 to 4 that equals, but for
\* case, a word of the short list of UI words is always accepted as hardcoded
\* text; so the line <button onClick={handleClick}>Save</button> yields the
\* finding Save and no finding handleClick.
C18_AsStated ==
    /\ \A i \in 1..lineNum : \A s \in Candidates[file.lines[i]] :
          IsShortUIWord(s) => IsHardcodedRecord(untranslated, s)
    /\ (ppc = "done" /\ \E i \in DOMAIN file.lines : file.lines[i] = LineButtonSave)
          => /\ IsHardcodedRecord(result, <<"S","a","v","e">>)
             /\ <<"h","a","n","d","l","e","C","l","i","c","k">> \notin DOMAIN result

C22_AsStated ==
    [][ ( /\ ppc = "scan" /\ lineNum' = lineNum + 1
          /\ \/ Contains(file.lines[lineNum'], <<"c","o","n","s","t"," ","a","d","m","i","n","T"," ","="," ","u","s","e","T","r","a","n","s","l","a","t","i","o","n","s","(","'","A","d","m","i","n","'",")">>)
             \/ Contains(file.lines[lineNum'], <<"c","o","n","s","t"," ","a","d","m","i","n","T"," ","="," ","g","e","t","T","r","a","n","s","l","a","t","i","o","n","s","(","'","A","d","m","i","n","'",")">>) )
        => currentNamespace' = currentNamespace
      ]_vars

\* no record of the map m was made on line n
NoRecordOfLine(m, n) == \A k \in DOMAIN m : m[k].Line # n

\* C27: a line on which useTranslations('X') or getTranslations('X') matches
\* contributes no record at all: the translation calls and the hardcoded text
\* of that line are not recorded, so that `const t = useTranslations('Common');
\* t('save')` adds nothing to the used keys.
C27_BindingLineSilent ==
    \A n \in 1..lineNum :
        Written[file.lines[n]].hookNs # {} =>
            /\ NoRecordOfLine(used, n)
            /\ NoRecordOfLine(untranslated, n)
            /\ ppc = "done" => NoRecordOfLine(result, n)

\* the file of the one line useTranslations("NS"); t("key") has been scanned:
\* the namespace is set and nothing is returned
C27_Witness ==
    /\ ppc = "done"
    /\ file.lines = <<LineUseAndCall>>
    /\ <<<<"t">>, <<"k","e","y">>>> \in Written[LineUseAndCall].calls
    /\ currentNamespace = <<"N","S">>
    /\ result = EmptyMap

\* ------------------------------------------------------------------------
\* Properties of the classification of a span, checked under ClassifySpec.

\* the digits of a text
DigitCount(text) == Cardinality({i \in 1..Len(text) : text[i] \in Digit})

\* the span is decided by none of the acceptance rules 1 to 3: it is no short
\* UI word, holds no UI phrase and has fewer words than a sentence
NotDecidedEarlier(text) ==
    /\ ~IsShortUIWord(text)
    /\ ~ContainsSome(text, UIPatterns)
    /\ NumFields(text) < MinWordsForSentence

\* the span starts with an uppercase letter, ends with terminal punctuation
\* and is longer than three characters
IsSentenceLike(text) ==
    /\ Len(text) > 3
    /\ text[1] \in Upper
    /\ text[Len(text)] \in {".", "!", "?"}

\* C23 as stated: a candidate span that passes every rejection, is not
\* decided by the acceptance rules 1 to 3, starts with an uppercase letter,
\* ends with `.`, `!` or `?` and is longer than 3 characters is accepted as
\* hardcoded text, whatever its word count or alphabetic ratio.
C23_AsStated ==
    ( /\ kpc \in {"accepted", "rejected"}
      /\ ~ContainsAny(span, {"{", "}", "[", "]", "(", ")", "<", ">", "=", "+", "*", "/"})
      /\ ~Contains(span, <<"_">>)
      /\ NotDecidedEarlier(span)
      /\ IsSentenceLike(span) )
    => kpc = "accepted"

\* C24 as stated: a candidate span is rejected as mostly numeric exactly when
\* its digit count is at least half of its length (2 x digits >= length); a
\* span with fewer digits than half its length is never rejected by this rule.
C24_AsStated ==
    numeric # "unreached" =>
        (numeric = "yes" <=> 2 * DigitCount(span) >= Len(span))

\* ------------------------------------------------------------------------
\* Properties of the catalog extraction (ParseTranslationFile, extractKeys),
\* checked under CatalogSpec.

\* the segments of a path joined by "."
RECURSIVE JoinPath(_)
JoinPath(p) == IF Len(p) = 1 THEN p[1] ELSE p[1] \o <<".">> \o JoinPath(Tail(p))

\* the key paths of a nested mapping: every sequence of keys that leads from
\* the top through mappings only, to a mapping or to any other value
RECURSIVE MapPaths(_)
MapPaths(v) ==
    IF v.t # "map" THEN {}
    ELSE UNION { {<<k>>} \cup {<<k>> \o p : p \in MapPaths(v.m[k])} : k \in DOMAIN v.m }

\* C10: the keys extracted from a catalog are exactly the key paths of its
\* nested mapping at every depth, intermediate nodes and leaves alike, the
\* segments joined by "."; each is declared under its own key.  For
\* Common -> button -> {save, delete} they include Common, Common.button,
\* Common.button.save and Common.button.delete.
C10_EveryKeyPath ==
    cpc = "done" =>
        /\ DOMAIN declared = {JoinPath(p) : p \in MapPaths(catalog.data)}
        /\ \A k \in DOMAIN declared : declared[k].Key = k /\ declared[k].Declared
        /\ catalog.data = DocCommon =>
              { <<"C","o","m","m","o","n">>, <<"C","o","m","m","o","n",".","b","u","t","t","o","n">>, <<"C","o","m","m","o","n",".","b","u","t","t","o","n",".","s","a","v","e">>,
                <<"C","o","m","m","o","n",".","b","u","t","t","o","n",".","d","e","l","e","t","e">> } \subseteq DOMAIN declared

\* the catalog Common -> button -> {save, delete} has been parsed and its four
\* key paths are the declared keys
C10_Witness ==
    /\ cpc = "done"
    /\ catalog.data = DocCommon
    /\ DOMAIN declared = { <<"C","o","m","m","o","n">>, <<"C","o","m","m","o","n",".","b","u","t","t","o","n">>, <<"C","o","m","m","o","n",".","b","u","t","t","o","n",".","s","a","v","e">>,
                           <<"C","o","m","m","o","n",".","b","u","t","t","o","n",".","d","e","l","e","t","e">> }


\* the value a key path leads to in a nested mapping
RECURSIVE ValueAt(_, _)
ValueAt(v, p) == IF p = <<>> THEN v ELSE ValueAt(v.m[p[1]], Tail(p))

\* the key paths of a catalog whose value is a sequence
ArrayPaths(v) == {p \in MapPaths(v) : ValueAt(v, p).t = "arr"}

\* the keys under the elements of the sequence at the key path p: for the
\* element i (from 0) that is a mapping, <p>[i].<key path beneath it>
ElementKeys(v, p) ==
    LET a == ValueAt(v, p).a
    IN  UNION { {JoinPath(p) \o <<"[">> \o Itoa(i - 1) \o <<"]">> \o <<".">> \o JoinPath(q) :
                    q \in MapPaths(a[i])}
                : i \in 1..Len(a) }

\* C11 (as stated): for a catalog value that is a sequence, every element
\* that is itself a mapping contributes declared keys under the path segment
\* <parent>[<index>], the traversal continuing beneath it, and scalar elements
\* contribute no key.
C11_AsStated ==
    cpc = "done" =>
        \A p \in ArrayPaths(catalog.data) :
            ElementKeys(catalog.data, p) \subseteq DOMAIN declared

\* a dotted key: one or more non-empty segments joined by "."
WellFormedKey(k) ==
    /\ k # <<>>
    /\ k[1] # "."
    /\ k[Len(k)] # "."
    /\ \A i \in 1..(Len(k) - 1) : ~(k[i] = "." /\ k[i + 1] = ".")

\* C12 (as stated): the key of every record produced by the catalog
\* extraction or by the extraction of translation calls is a sequence of one
\* or more non-empty segments joined by ".": it is not empty, does not begin
\* or end with "." and holds no "..".
C12_AsStated ==
    /\ cpc = "done" => \A k \in DOMAIN declared : WellFormedKey(declared[k].Key)
    /\ \A k \in DOMAIN used : WellFormedKey(used[k].Key)

\* ------------------------------------------------------------------------
\* Properties of the reconciliation (Analyze, analyzeLocale), checked under
\* AnalyzeSpec.

\* the keys declared by the catalog files of a locale that parse
DeclaredKeys(locale) ==
    UNION { DOMAIN ParseTranslationFile(localeFiles[locale][i]) :
              i \in {j \in 1..Len(localeFiles[locale]) :
                        ~ParseTranslationFileFails(localeFiles[locale][j])} }

\* the keys of the used map
UsedKeys == DOMAIN allUsed

\* the keys of the used map recorded by translation calls
CallKeys == {k \in DOMAIN allUsed : allUsed[k].Type = "translation_call"}

\* the locales analysed so far
Analysed == DOMAIN results.LocaleResults

\* the records of a list with the key k, counted with their copies
CountKey(list, k) ==
    BagCardinality([r \in {x \in BagToSet(list) : x.Key = k} |-> list[r]])

\* a is a proper ancestor of the dotted key k: k is a, a dot and more
AncestorOf(a, k) ==
    /\ Len(a) < Len(k)
    /\ SubSeq(k, 1, Len(a)) = a
    /\ k[Len(a) + 1] = "."

\* C7 as stated: no locale's UnusedTranslations holds an ancestor of a key
\* recorded as used by a translation call.
C7_AsStated ==
    \A l \in Analysed : \A r \in BagToSet(results.LocaleResults[l].UnusedTranslations) :
        \A u \in CallKeys : ~AncestorOf(r.Key, u)

C9_UndeclaredExactly ==
    /\ \A l \in Analysed :
          LET undeclared == results.LocaleResults[l].UndeclaredTranslations
          IN  /\ \A k \in CallKeys \ DeclaredKeys(l) : CountKey(undeclared, k) = 1
              /\ \A r \in BagToSet(undeclared) :
                    /\ r.Key \in CallKeys \ DeclaredKeys(l)
                    /\ r.File = allUsed[r.Key].File /\ r.Line = allUsed[r.Key].Line
                    /\ r.Type = "translation_call" /\ ~r.Declared /\ r.Locale = l
    /\ \A r \in BagToSet(results.UndeclaredTranslations) : r.Type # "hardcoded_string"

\* Analyze has returned for a project with a hardcoded string and the calls
\* NS.key and NS.title in its sources and a locale that declares NS.key only:
\* NS.title is undeclared there, NS.key and the hardcoded string are not
C9_Witness ==
    /\ apc = "done"
    /\ \E h \in UsedKeys : allUsed[h].Type = "hardcoded_string"
    /\ \E l \in Analysed :
          LET keys == {r.Key : r \in BagToSet(results.LocaleResults[l].UndeclaredTranslations)}
          IN  /\ <<"N","S",".","k","e","y">> \in DeclaredKeys(l)
              /\ <<"N","S",".","t","i","t","l","e">> \in keys
              /\ <<"N","S",".","k","e","y">> \notin keys
              /\ \A h \in UsedKeys \ CallKeys : h \notin keys


\* the project path does not exist or is no directory
InvalidProjectPath == ~(project.exists /\ project.isDir)

\* C15: if the project path does not exist or is not a directory, Analyze
\* returns an error and no result, before any file is listed or scanned and
\* before any progress callback is invoked.
C15_InvalidPathFails ==
    InvalidProjectPath =>
        /\ apc \in {"validate", "failed"}
        /\ apc = "failed" => returned = [value |-> Nil, err |-> TRUE]
        /\ progressLog = <<>>
        /\ translationFiles = <<>> /\ sourceFiles = <<>>
        /\ allUsed = EmptyMap /\ results = NewResults

\* Analyze, with a progress callback set, has returned the error for a
\* project path that is a file
C15_Witness ==
    /\ project.exists /\ ~project.isDir
    /\ progressCallback
    /\ apc = "failed"
    /\ returned.err
    /\ progressLog = <<>>

\* the file is one Analyze reads and its reading or parsing fails
FailingFile(f) ==
    \/ IsTranslationFile(f) /\ ParseTranslationFileFails(f)
    \/ IsSourceFile(f) /\ ParseSourceFileFails(f)

FailingPaths == {project.files[i].path : i \in {j \in DOMAIN project.files : FailingFile(project.files[j])}}

IsReadFile(f) == ~FailingFile(f)

\* the files of the project without those that fail
WithoutFailing(files) == SelectSeq(files, IsReadFile)

\* the files of the project, those that fail replaced by files of the same
\* path that hold no record: the catalog {} and the source file of no line
FailingAsEmpty(files) ==
    [i \in DOMAIN files |->
        IF ~FailingFile(files[i]) THEN files[i]
        ELSE IF IsTranslationFile(files[i])
             THEN CatalogFile(files[i].path, TRUE, TRUE, Object(EmptyMap))
             ELSE SourceFile(files[i].path, <<>>, TRUE)]

\* the used records of a list of source files, the later file winning
RECURSIVE UsedFrom(_, _, _)
UsedFrom(files, n, all) ==
    IF n > Len(files) THEN all
    ELSE UsedFrom(files, n + 1,
                  IF ParseSourceFileFails(files[n]) THEN all
                  ELSE MergeInto(all, ParseSourceFile(files[n])))

\* what Analyze returns for a directory that holds the files
AnalyzeOutcome(files) ==
    LET lf    == groupTranslationFilesByLocale(findTranslationFiles(files))
        usedT == UsedFrom(findSourceFiles(files), 1, EmptyMap)
    IN  generateOverallResults(
            [NewResults EXCEPT !.LocaleResults = [l \in DOMAIN lf |-> analyzeLocale(l, lf[l], usedT)]],
            files)

\* the records of the lists of a result
ResultRecords(res) ==
    BagToSet(res.UnusedTranslations) \cup BagToSet(res.UndeclaredTranslations)
        \cup BagToSet(res.HardcodedStrings)

\* C16 (as stated): if reading or parsing a catalog file or a source file
\* fails, Analyze still returns a result without error, the failing file
\* contributes no records, and the result is the one Analyze returns when the
\* failing file is absent.
C16_AsStated ==
    apc = "done" =>
        /\ ~returned.err
        /\ \A r \in ResultRecords(returned.value) : r.File \notin FailingPaths
        /\ returned.value = AnalyzeOutcome(WithoutFailing(project.files))

\* C16 (amended): if reading or parsing a catalog file or a source file
\* fails, Analyze still returns a result without error, the failing file
\* contributes no records, and the result is the one Analyze returns when the
\* failing file holds no record (its path, and so the locale of a catalog,
\* still counts).
C16_FailingFileAsEmpty ==
    apc = "done" =>
        /\ ~returned.err
        /\ \A r \in ResultRecords(returned.value) : r.File \notin FailingPaths
        /\ returned.value = AnalyzeOutcome(FailingAsEmpty(project.files))

\* Analyze has returned for a project with a catalog that cannot be read, a
\* source file that cannot be read, and findings from the files that can
C16_Witness ==
    /\ apc = "done"
    /\ \E i, j \in DOMAIN project.files :
          /\ IsTranslationFile(project.files[i]) /\ FailingFile(project.files[i])
          /\ IsSourceFile(project.files[j]) /\ FailingFile(project.files[j])
    /\ ~returned.err
    /\ returned.value.UndeclaredTranslations # EmptyBag
    /\ returned.value.UnusedTranslations # EmptyBag

\* no two entries of a list of records have the same text, file and line
NoDuplicateTriple(list) ==
    \A r1 \in BagToSet(list) :
        /\ CopiesIn(r1, list) = 1
        /\ \A r2 \in BagToSet(list) :
              (r1.Key = r2.Key /\ r1.File = r2.File /\ r1.Line = r2.Line) => r1 = r2

\* C20: after Analyze, the overall HardcodedStrings list never holds two
\* entries with the same text, file and line, whatever the source files are.
C20_NoDuplicateHardcoded ==
    /\ NoDuplicateTriple(results.HardcodedStrings)
    /\ apc = "done" => NoDuplicateTriple(returned.value.HardcodedStrings)

\* Analyze has returned for a project of two locales and two source files
\* that hold the same hardcoded text on the same line: one entry for each file
C20_Witness ==
    /\ apc = "done"
    /\ Cardinality(DOMAIN returned.value.LocaleResults) = 2
    /\ Cardinality(BagToSet(returned.value.HardcodedStrings)) = 2
    /\ \A r \in BagToSet(returned.value.HardcodedStrings) :
          r.Key = <<"W","e","l","c","o","m","e"," ","t","o"," ","o","u","r"," ","a","p","p","l","i","c","a","t","i","o","n">> /\ r.Line = 2

\* the sum of the numbers f[l] over the locales l of f
RECURSIVE SumOfLocales(_)
SumOfLocales(f) ==
    IF DOMAIN f = {} THEN 0
    ELSE LET l == CHOOSE x \in DOMAIN f : TRUE
         IN  f[l] + SumOfLocales([x \in DOMAIN f \ {l} |-> f[x]])

\* the list is the concatenation of the lists lists[l]: every record is in
\* it as often as in all of them together
IsConcatenation(list, lists) ==
    /\ BagToSet(list) = UNION {BagToSet(lists[l]) : l \in DOMAIN lists}
    /\ \A r \in BagToSet(list) :
          CopiesIn(r, list) = SumOfLocales([l \in DOMAIN lists |-> CopiesIn(r, lists[l])])

\* C21: after Analyze, the overall TotalTranslations and UsedTranslations are
\* the sums of the values of the locales of LocaleResults, and the overall
\* unused and undeclared lists are the concatenations of the lists of the
\* locales, so that a used key is counted once for every locale.
C21_TotalsAreSums ==
    apc = "done" =>
        LET res == returned.value
            lr  == res.LocaleResults
        IN  /\ res.TotalTranslations =
                   SumOfLocales([l \in DOMAIN lr |-> lr[l].TotalTranslations])
            /\ res.UsedTranslations =
                   SumOfLocales([l \in DOMAIN lr |-> lr[l].UsedTranslations])
            /\ res.UsedTranslations = Cardinality(DOMAIN lr) * Cardinality(DOMAIN allUsed)
            /\ IsConcatenation(res.UnusedTranslations,
                               [l \in DOMAIN lr |-> lr[l].UnusedTranslations])
            /\ IsConcatenation(res.UndeclaredTranslations,
                               [l \in DOMAIN lr |-> lr[l].UndeclaredTranslations])

\* Analyze has returned for a project of two locales whose source files use
\* keys: the used keys are counted twice, and both locales have unused and
\* undeclared keys
C21_Witness ==
    /\ apc = "done"
    /\ Cardinality(DOMAIN returned.value.LocaleResults) = 2
    /\ allUsed # EmptyMap
    /\ returned.value.UsedTranslations = 2 * Cardinality(DOMAIN allUsed)
    /\ \A l \in DOMAIN returned.value.LocaleResults :
          /\ returned.value.LocaleResults[l].UnusedTranslations # EmptyBag
          /\ returned.value.LocaleResults[l].UndeclaredTranslations # EmptyBag

\* the state of the scan of a file after its first n lines, and at its end
ScanPrefix(f, n) == ScanLines(ScanStart, SubSeq(f.lines, 1, n), f.path, 1)

ScanOf(f) == ScanPrefix(f, Len(f.lines))

\* the scan in the state st has just recorded the key k on line n, as a call
\* or as hardcoded text
ObservedIn(st, k, n) ==
    \/ k \in DOMAIN st.used /\ st.used[k].Line = n
    \/ k \in DOMAIN st.untranslated /\ st.untranslated[k].Line = n

\* line n of the file f holds a call of the key k or the hardcoded text k
ObservedAt(f, k, n) == ObservedIn(ScanPrefix(f, n), k, n)

\* the source files that are read and observe the key k, by their index
FilesObserving(k) ==
    {i \in 1..Len(sourceFiles) :
        /\ ~ParseSourceFileFails(sourceFiles[i])
        /\ \E n \in 1..Len(sourceFiles[i].lines) : ObservedAt(sourceFiles[i], k, n)}

\* the last line of the file f that observes the key k
LastLineObserving(f, k) ==
    CHOOSE n \in 1..Len(f.lines) :
        /\ ObservedAt(f, k, n)
        /\ \A m \in (n + 1)..Len(f.lines) : ~ObservedAt(f, k, m)

\* C26 as stated: when the same used key (or the same hardcoded text) is
\* observed at several lines of one file or in several files, the merged used
\* map holds one record for it, and that record carries the file and the line
\* of the observation processed last.
C26_AsStated ==
    apc \in {"locales", "complete", "done"} =>
        \A k \in DOMAIN allUsed :
            LET seen == FilesObserving(k)
                last == CHOOSE i \in seen : \A j \in seen : j <= i
            IN  /\ allUsed[k].Key = k
                /\ allUsed[k].File = sourceFiles[last].path
                /\ allUsed[k].Line = LastLineObserving(sourceFiles[last], k)

\* the files of a directory with the source files in the opposite order
RescannedBackwards(files) ==
    LET src == findSourceFiles(files)
        IsOther(f) == \A i \in 1..Len(src) : src[i] # f
    IN  SelectSeq(files, IsOther) \o [i \in 1..Len(src) |-> src[Len(src) + 1 - i]]

\* the unused keys and the undeclared keys of every locale of a result
KeySets(res) ==
    [l \in DOMAIN res.LocaleResults |->
        [unused     |-> {r.Key : r \in BagToSet(res.LocaleResults[l].UnusedTranslations)},
         undeclared |-> {r.Key : r \in BagToSet(res.LocaleResults[l].UndeclaredTranslations)}]]

\* C28 as stated: for a fixed set of source files and catalogs, each locale's
\* set of unused keys and set of undeclared keys do not depend on the order in
\* which the source files are scanned and merged into the shared used map.
C28_AsStated ==
    apc = "done" =>
        KeySets(returned.value) = KeySets(AnalyzeOutcome(RescannedBackwards(project.files)))

\* C29 as stated: within one file scan, accepting hardcoded-text spans never
\* removes or changes a translation_call record: a key used by a translation
\* call in the file is still returned with origin translation_call, even when
\* an accepted hardcoded span of the file has the same text as that key.
C29_AsStated ==
    ( /\ apc = "sources" /\ fileIndex >= 1
      /\ ~ParseSourceFileFails(sourceFiles[fileIndex]) )
    => \A k \in DOMAIN ScanOf(sourceFiles[fileIndex]).used :
          /\ k \in DOMAIN allUsed
          /\ allUsed[k].Type = "translation_call"

\* the place of a stage in the order of the progress calls, 0 for no stage
StageRank(stage) ==
    IF stage = <<"F","i","n","d","i","n","g"," ","t","r","a","n","s","l","a","t","i","o","n"," ","f","i","l","e","s">> THEN 1
    ELSE IF stage = <<"F","i","n","d","i","n","g"," ","s","o","u","r","c","e"," ","f","i","l","e","s">> THEN 2
    ELSE IF stage = <<"G","r","o","u","p","i","n","g"," ","f","i","l","e","s"," ","b","y"," ","l","o","c","a","l","e">> THEN 3
    ELSE IF stage = <<"A","n","a","l","y","z","i","n","g"," ","s","o","u","r","c","e"," ","f","i","l","e","s">> THEN 4
    ELSE IF HasPrefix(stage, <<"A","n","a","l","y","z","i","n","g"," ","l","o","c","a","l","e"," ">>) THEN 5
    ELSE IF stage = <<"G","e","n","e","r","a","t","i","n","g"," ","r","e","s","u","l","t","s">> THEN 6
    ELSE IF stage = <<"F","i","n","d","i","n","g"," ","h","a","r","d","c","o","d","e","d"," ","s","t","r","i","n","g","s">> THEN 7
    ELSE IF stage = <<"C","o","m","p","l","e","t","e">> THEN 8
    ELSE 0

\* the calls of the progress callback with a stage of the rank r
CallsOfRank(r) == {i \in 1..Len(progressLog) : StageRank(progressLog[i][1]) = r}

\* C25: when a progress callback is set and Analyze succeeds, the callback is
\* called with the stages in the order Finding translation files, Finding
\* source files, Grouping files by locale, Analyzing source files, Analyzing
\* locale <x>, Generating results, Finding hardcoded strings, Complete; every
\* call has 0 <= completed <= total, and the last call is (Complete, 1, 1).
\* The calls made so far are in that order at every moment of the run.
C25_ProgressInOrder ==
    /\ \A i \in 1..Len(progressLog) :
          /\ StageRank(progressLog[i][1]) \in 1..8
          /\ 0 <= progressLog[i][2] /\ progressLog[i][2] <= progressLog[i][3]
          /\ \A j \in (i + 1)..Len(progressLog) :
                StageRank(progressLog[i][1]) <= StageRank(progressLog[j][1])
    /\ (apc = "done" /\ progressCallback) =>
          /\ progressLog # <<>>
          /\ progressLog[Len(progressLog)] = <<<<"C","o","m","p","l","e","t","e">>, 1, 1>>
          /\ \A r \in {1, 2, 3, 6, 8} : Cardinality(CallsOfRank(r)) = 1
          /\ Cardinality(CallsOfRank(4)) = Len(sourceFiles) + 1
          /\ Cardinality(CallsOfRank(7)) = Len(sourceFiles)
          /\ {progressLog[i][1] : i \in CallsOfRank(5)}
                = {<<"A","n","a","l","y","z","i","n","g"," ","l","o","c","a","l","e"," ">> \o l : l \in DOMAIN returned.value.LocaleResults}
          /\ Cardinality(CallsOfRank(5)) = Cardinality(DOMAIN returned.value.LocaleResults)

\* Analyze has returned with a callback set, for a project of two source
\* files and two locales: twelve calls, the last of them Complete
C25_Witness ==
    /\ apc = "done"
    /\ progressCallback
    /\ Len(sourceFiles) = 2
    /\ Cardinality(DOMAIN returned.value.LocaleResults) = 2
    /\ Len(progressLog) = 12
    /\ progressLog[12] = <<<<"C","o","m","p","l","e","t","e">>, 1, 1>>

\* every catalog file of the locale fails to read or to parse
AllCatalogsFail(locale) ==
    \A i \in 1..Len(localeFiles[locale]) : ParseTranslationFileFails(localeFiles[locale][i])

RunCompleted ==
    /\ mpc = "exited"
    /\ apc = "done"
    /\ ~(report /\ reportFails)

\* C13 (as stated): a run of `analyze` that completes and finds at least one
\* unused translation, undeclared translation or hardcoded string ends with
\* exit code 1, and a completed run that finds none ends with exit code 0,
\* for every combination of --quiet and --report.
C13_AsStated ==
    RunCompleted => exitCode = IF HasFindings(returned.value) THEN 1 ELSE 0

\* C14 (as stated): when the analysis fails with an error (an invalid
\* project path, for one), the process ends with exit code 2, which is not
\* the exit code of a run that reports findings.
C14_AsStated ==
    (mpc = "exited" /\ apc = "failed") => exitCode = 2
====
